---------------------------- MODULE Spec2Model ----------------------------
(***************************************************************************)
(* A model of the four product extractors of the scrapy_webscraper         *)
(* project (Uniqlo, Nike, Marks & Spencer, Westside): price cleaning,      *)
(* Nike's carousel click loop, M&S image resolution and the crawl run      *)
(* that turns pages into records and run statistics.                       *)
(*                                                                         *)
(* Python strings are TLA+ strings; a character is a string of length 1.   *)
(* Two code points of the source are written with ASCII stand-ins so that  *)
(* the module does not depend on the locale it is read under: see RUPEE    *)
(* and NIKE_CURRENCY_LITERAL.                                              *)
(***************************************************************************)
EXTENDS Integers, Sequences, FiniteSets, Bags, TLC

VARIABLES
    \* ---- price cleaning (SpecPrice)
    price_site,       \* the extractor whose cleaning steps are applied
    price_raw,        \* the text the price selectors returned
    price_once,       \* the cleaning steps applied to price_raw
    price_twice,      \* the cleaning steps applied to price_once
    \* ---- NikeSpider.click_through_carousel (SpecCarousel)
    pc,               \* "loop" while the for loop runs, then "break" or "exhausted"
    clicks,           \* iterations of the for loop completed (i + 1)
    collected_images, \* len(collected_images)
    stable_count_iterations,
    last_growth,      \* history: the last iteration that added an image
    \* ---- MSSpider.extract_variant_images (SpecImages)
    img_pc,           \* "call" before the function runs, "returned" after
    img_page,         \* what the image selectors return on the page
    img_color_code,   \* the color_code argument
    img_locals,       \* the local sets when the function returns
    img_result,       \* the returned list
    \* ---- one crawl run of one spider (Spec)
    spider,           \* the spider that runs
    scheduled,        \* the requests in flight, a bag
    emitted,          \* the records handed to the sink, in emission order
    successful_products,
    failed_products,  \* the appends to failed_products, <<error message, id>>, in order
    total_variants_found,
    seen,             \* the URLs the duplicate filter has let through
    responses,        \* history: how many responses and failures were handled
    last_call,        \* history: the request handled last, the response or
                      \* failure it ended in, and what the callback yielded
    \* ---- the same run, callbacks interleaved at their yields (SpecConcurrent)
    running           \* the generators the callbacks returned, in call order

vars ==
    <<price_site, price_raw, price_once, price_twice,
      pc, clicks, collected_images, stable_count_iterations, last_growth,
      img_pc, img_page, img_color_code, img_locals, img_result,
      spider, scheduled, emitted, successful_products, failed_products,
      total_variants_found, seen, responses, last_call, running>>

\* Python's None
None == "None_"

-----------------------------------------------------------------------------
(* Python str operations *)

\* s[i-1]
Char(s, i) == SubSeq(s, i, i)

\* s[i-1:]
From(s, i) == SubSeq(s, i, Len(s))

\* s.startswith(p)
StartsWith(s, p) == Len(p) <= Len(s) /\ SubSeq(s, 1, Len(p)) = p

\* s.endswith(p)
EndsWith(s, p) == Len(p) <= Len(s) /\ SubSeq(s, Len(s) - Len(p) + 1, Len(s)) = p

\* s[i-1:].startswith(sub)
MatchAt(s, i, sub) == i + Len(sub) - 1 <= Len(s) /\ SubSeq(s, i, i + Len(sub) - 1) = sub

\* sub in s
Contains(s, sub) == \E i \in 1..(Len(s) - Len(sub) + 1) : MatchAt(s, i, sub)

\* the positions of s where sub starts
Occurrences(s, sub) == {i \in 1..(Len(s) - Len(sub) + 1) : MatchAt(s, i, sub)}

Least(S) == CHOOSE k \in S : \A j \in S : k <= j
Greatest(S) == CHOOSE k \in S : \A j \in S : k >= j

\* s.find(sub) + 1: the first position of sub in s, 0 when there is none
Find(s, sub) ==
    LET First(hits) == IF hits = {} THEN 0 ELSE Least(hits) IN First(Occurrences(s, sub))

\* s.rfind(sub) + 1
FindLast(s, sub) ==
    LET Last(hits) == IF hits = {} THEN 0 ELSE Greatest(hits) IN Last(Occurrences(s, sub))

\* s.replace(old, new)
RECURSIVE Replace(_, _, _)
Replace(s, old, new) ==
    LET At(i) == IF i = 0 THEN s
                 ELSE SubSeq(s, 1, i - 1) \o new \o Replace(From(s, i + Len(old)), old, new)
    IN  At(Find(s, old))

\* the characters str.strip() and the regex class \s remove
Whitespace == {" ", "\t", "\n", "\r"}

RECURSIVE LStrip(_)
LStrip(s) == IF Len(s) > 0 /\ Char(s, 1) \in Whitespace THEN LStrip(From(s, 2)) ELSE s

RECURSIVE RStrip(_)
RStrip(s) ==
    IF Len(s) > 0 /\ Char(s, Len(s)) \in Whitespace THEN RStrip(SubSeq(s, 1, Len(s) - 1)) ELSE s

\* s.strip()
Strip(s) == LStrip(RStrip(s))

\* s.split(sep)[0]
SplitFirst(s, sep) ==
    LET Before(i) == IF i = 0 THEN s ELSE SubSeq(s, 1, i - 1) IN Before(Find(s, sep))

\* s.split(sep)[-1]
SplitLast(s, sep) ==
    LET After(i) == IF i = 0 THEN s ELSE From(s, i + Len(sep)) IN After(FindLast(s, sep))

UpperLetters == "ABCDEFGHIJKLMNOPQRSTUVWXYZ"
LowerLetters == "abcdefghijklmnopqrstuvwxyz"
Digits == {"0", "1", "2", "3", "4", "5", "6", "7", "8", "9"}

\* c.lower() and c.upper() of one character
LowerChar(c) ==
    IF \E i \in 1..26 : Char(UpperLetters, i) = c
    THEN Char(LowerLetters, CHOOSE i \in 1..26 : Char(UpperLetters, i) = c) ELSE c
UpperChar(c) ==
    IF \E i \in 1..26 : Char(LowerLetters, i) = c
    THEN Char(UpperLetters, CHOOSE i \in 1..26 : Char(LowerLetters, i) = c) ELSE c

\* s.lower()
RECURSIVE Lower(_)
Lower(s) == IF s = "" THEN "" ELSE LowerChar(Char(s, 1)) \o Lower(From(s, 2))

\* s.upper()
RECURSIVE Upper(_)
Upper(s) == IF s = "" THEN "" ELSE UpperChar(Char(s, 1)) \o Upper(From(s, 2))

\* Python truthiness of an optional string: neither None nor ""
Truthy(s) == s # None /\ s # ""

\* the characters of a string
Chars(s) == {Char(s, i) : i \in 1..Len(s)}

\* the regex classes \w, [\w-] and [A-Z0-9]
Letters == Chars(UpperLetters) \cup Chars(LowerLetters)
WordChars == Letters \cup Digits \cup {"_"}
SlugChars == WordChars \cup {"-"}
CodeChars == Chars(UpperLetters) \cup Digits

\* the length of the run of characters of a class that starts at position i
RunLength(s, i, class) ==
    LET Until(stops) == IF stops = {} THEN Len(s) - i + 1 ELSE Least(stops) - i
    IN  Until({j \in i..Len(s) : Char(s, j) \notin class})

\* the length of the run of characters of a class that ends at position j
RunLengthBack(s, j, class) ==
    LET Since(stops) == IF stops = {} THEN j ELSE j - Greatest(stops)
    IN  Since({k \in 1..j : Char(s, k) \notin class})

-----------------------------------------------------------------------------
(* Price cleaning *)

\* The rupee sign U+20B9 of MS_spider.py and westside_spider.py, written
\* with an ASCII stand-in.
RUPEE == "$"

\* The three characters U+00E2 U+201A U+00B9 that nike_spider.py removes
\* (the UTF-8 bytes of the rupee sign read as Windows-1252), written with
\* ASCII stand-ins.  None of them is RUPEE.
NIKE_CURRENCY_LITERAL == "{|}"

RECURSIVE DropLeading(_, _)
\* the longest prefix of s made of characters of set cs removed: the greedy
\* class [..]* of a regex anchored where s starts
DropLeading(s, cs) ==
    IF Len(s) > 0 /\ Char(s, 1) \in cs THEN DropLeading(From(s, 2), cs) ELSE s

\* the first label of the alternation (in order) that s starts with,
\* ignoring case; "" when there is none
LeadingLabel(s, labels) ==
    LET First(hits) == IF hits = {} THEN "" ELSE labels[Least(hits)]
    IN  First({k \in 1..Len(labels) : StartsWith(Lower(s), Lower(labels[k]))})

\* re.sub(r'^(MRP|Price)[\s:]*', '', s, flags=re.IGNORECASE)
SubLeadingLabelMS(s) ==
    LET Drop(l) == IF l = "" THEN s
                   ELSE DropLeading(From(s, Len(l) + 1), Whitespace \cup {":"})
    IN  Drop(LeadingLabel(s, <<"MRP", "Price">>))

\* re.sub(r'^(MRP|Price|Regular price)[\s:]*', '', s, flags=re.IGNORECASE)
SubLeadingLabelWestside(s) ==
    LET Drop(l) == IF l = "" THEN s
                   ELSE DropLeading(From(s, Len(l) + 1), Whitespace \cup {":"})
    IN  Drop(LeadingLabel(s, <<"MRP", "Price", "Regular price">>))

\* re.sub(r'(incl\..*|MRP.*)', '', s, flags=re.IGNORECASE): every match runs
\* to the end of its line, since . does not match a line break
RECURSIVE SubTrailingSuffix(_)
SubTrailingSuffix(s) ==
    LET Cut(i, nl) == IF nl = 0 THEN SubSeq(s, 1, i - 1)
                      ELSE SubSeq(s, 1, i - 1) \o "\n" \o SubTrailingSuffix(From(s, i + nl))
        At(i) == Cut(i, Find(From(s, i), "\n"))
        First(hits) == IF hits = {} THEN s ELSE At(Least(hits))
        In(l) == First({i \in 1..Len(s) : MatchAt(l, i, "incl.") \/ MatchAt(l, i, "mrp")})
    IN  In(Lower(s))

\* re.sub(r'^MRP\s*:?\s*', '', s, flags=re.IGNORECASE)
SubLeadingMRPNike(s) ==
    IF ~StartsWith(Lower(s), "mrp") THEN s
    ELSE LET Colon(a) == IF StartsWith(a, ":") THEN From(a, 2) ELSE a
         IN  DropLeading(Colon(DropLeading(From(s, 4), Whitespace)), Whitespace)

\* re.sub(r'\s+', '', s)
RECURSIVE RemoveWhitespace(_)
RemoveWhitespace(s) ==
    IF s = "" THEN ""
    ELSE (IF Char(s, 1) \in Whitespace THEN "" ELSE Char(s, 1)) \o RemoveWhitespace(From(s, 2))

\* MSSpider.extract_common_product_data, the steps under `if product_price:`
CleanPriceMS(p) ==
    LET NoRupee(a) == IF Contains(a, RUPEE) THEN Strip(Replace(a, RUPEE, "")) ELSE a
    IN  Replace(SubLeadingLabelMS(NoRupee(Strip(p))), ",", "")

\* WestsideSpider.extract_common_product_data, the steps under `if product_price:`
CleanPriceWestside(p) ==
    LET NoRupee(a) == IF Contains(a, RUPEE) THEN Strip(Replace(a, RUPEE, "")) ELSE a
    IN  Strip(Replace(SubTrailingSuffix(SubLeadingLabelWestside(NoRupee(Strip(p)))), ",", ""))

\* NikeSpider.parse_product_variant, "Clean up price ..."
CleanPriceNike(p) ==
    LET NoLabel(a) == IF Contains(Upper(a), "MRP") THEN SubLeadingMRPNike(a) ELSE a
    IN  RemoveWhitespace(
            Strip(Replace(Replace(NoLabel(Strip(p)), NIKE_CURRENCY_LITERAL, ""), "INR", "")))

\* ProductSpider.parse_product_variant: item['price'] = product_price.strip()
CleanPriceUniqlo(p) == Strip(p)

Sites == {"uniqlo", "nike", "ms", "westside"}

\* the price of a record, from the text the selectors returned: the cleaning
\* steps run only on a non-empty text (M&S and Westside skip them, Uniqlo and
\* Nike raise before them)
CleanPrice(site, p) ==
    IF ~Truthy(p) THEN p
    ELSE CASE site = "ms" -> CleanPriceMS(p)
           [] site = "westside" -> CleanPriceWestside(p)
           [] site = "nike" -> CleanPriceNike(p)
           [] site = "uniqlo" -> CleanPriceUniqlo(p)

\* ---- the price texts the cleaning steps are run on

MaxPriceTokens == 3

\* the strings of up to n tokens
RECURSIVE TokenStrings(_)
TokenStrings(n) ==
    IF n = 0 THEN {""}
    ELSE LET shorter == TokenStrings(n - 1)
         IN  shorter \cup
             {s \o t : s \in shorter,
                       t \in {"MRP", "price", RUPEE, "INR", ":", ",", " ", "1", "incl."}}

\* optional whitespace, a label, colons and whitespace, digits with commas
\* and a decimal part, optional whitespace
LabelledPrices ==
    {pre \o label \o sep \o number \o post :
        pre \in {"", " "}, label \in {"MRP", "mrp", "Price", "PRICE"},
        sep \in {"", ":", ": ", " : "}, number \in {"1,299.00", "12,34,567.50", "499.00"},
        post \in {"", " "}}

\* the characters of s that are digits or the decimal point
RECURSIVE DigitsAndPoint(_)
DigitsAndPoint(s) ==
    IF s = "" THEN ""
    ELSE (IF Char(s, 1) \in Digits \cup {"."} THEN Char(s, 1) ELSE "") \o DigitsAndPoint(From(s, 2))

PriceIdle ==
    /\ price_site = None
    /\ price_raw = None
    /\ price_once = None
    /\ price_twice = None

\* the extractor cleans the text its selectors returned
CleanOnce ==
    /\ price_site # None
    /\ price_once = None
    /\ price_once' = CleanPrice(price_site, price_raw)
    /\ UNCHANGED <<price_site, price_raw, price_twice>>
    /\ UNCHANGED <<pc, clicks, collected_images, stable_count_iterations, last_growth,
                 img_pc, img_page, img_color_code, img_locals, img_result,
                 spider, scheduled, emitted, successful_products, failed_products,
                 total_variants_found, seen, responses, last_call, running>>

\* the same steps run on their own output
CleanTwice ==
    /\ price_once # None
    /\ price_twice = None
    /\ price_twice' = CleanPrice(price_site, price_once)
    /\ UNCHANGED <<price_site, price_raw, price_once>>
    /\ UNCHANGED <<pc, clicks, collected_images, stable_count_iterations, last_growth,
                 img_pc, img_page, img_color_code, img_locals, img_result,
                 spider, scheduled, emitted, successful_products, failed_products,
                 total_variants_found, seen, responses, last_call, running>>

-----------------------------------------------------------------------------
(* NikeSpider.click_through_carousel *)

max_clicks == 35

\* the number of distinct image sources the page can reveal
MaxCarouselImages == 7

\* what the DOM query of one iteration returns: the first k images of the
\* carousel (img1 .. imgk), with or without a placeholder and an empty src
\* beside them
DomSnapshots ==
    {{"img" \o Char("123456789", j) : j \in 1..k} \cup junk :
        k \in 0..MaxCarouselImages, junk \in {{}, {"data:image/gif;base64,R0", "", " "}}}

\* `if src and src.strip() and not src.startswith('data:')`
KeptSrc(src) == src # "" /\ Strip(src) # "" /\ ~StartsWith(src, "data:")

\* the stop test with a streak of two
StopConditionEarly(count, stable) == count > 5 /\ stable >= 2

\* the stop test with a streak of four
StopConditionLate(count, stable) == count > 5 /\ stable >= 4

\* `if current_image_count > 5 and stable_count_iterations >= 3`
StopCondition(count, stable) == count > 5 /\ stable >= 3

CarouselIdle ==
    /\ pc = "idle"
    /\ clicks = 0
    /\ collected_images = {}
    /\ stable_count_iterations = 0
    /\ last_growth = 0

\* wait_for_selector and query_selector: without a next button the
\* coroutine returns set()
FindNextButton(found) ==
    /\ pc = "start"
    /\ pc' = IF found THEN "loop" ELSE "no_button"
    /\ UNCHANGED <<clicks, collected_images, stable_count_iterations, last_growth>>
    /\ UNCHANGED <<price_site, price_raw, price_once, price_twice,
                 img_pc, img_page, img_color_code, img_locals, img_result,
                 spider, scheduled, emitted, successful_products, failed_products,
                 total_variants_found, seen, responses, last_call, running>>

\* one iteration of `for i in range(max_clicks)`, the break test included
Click(dom) ==
    /\ pc = "loop"
    /\ clicks < max_clicks
    /\ LET previous_image_count == Cardinality(collected_images)
           collected == collected_images \cup {src \in dom : KeptSrc(src)}
           current_image_count == Cardinality(collected)
           stable == IF current_image_count = previous_image_count
                     THEN stable_count_iterations + 1
                     ELSE 0
       IN  /\ collected_images' = collected
           /\ stable_count_iterations' = stable
           /\ clicks' = clicks + 1
           /\ last_growth' = IF current_image_count = previous_image_count
                             THEN last_growth
                             ELSE clicks + 1
           /\ pc' = IF StopCondition(current_image_count, stable) THEN "break"
                    ELSE IF clicks + 1 = max_clicks THEN "exhausted"
                    ELSE "loop"
    /\ UNCHANGED <<price_site, price_raw, price_once, price_twice,
                 img_pc, img_page, img_color_code, img_locals, img_result,
                 spider, scheduled, emitted, successful_products, failed_products,
                 total_variants_found, seen, responses, last_call, running>>

\* an await of the loop raises: `except Exception` returns set()
ClickRaises ==
    /\ pc = "loop"
    /\ pc' = "error"
    /\ collected_images' = {}
    /\ UNCHANGED <<clicks, stable_count_iterations, last_growth>>
    /\ UNCHANGED <<price_site, price_raw, price_once, price_twice,
                 img_pc, img_page, img_color_code, img_locals, img_result,
                 spider, scheduled, emitted, successful_products, failed_products,
                 total_variants_found, seen, responses, last_call, running>>

-----------------------------------------------------------------------------
(* Sorting and splitting *)

\* printable ASCII characters in code point order (without the quote, the
\* backslash and the backquote, which no modelled string contains)
AsciiOrder ==
    " !#$%&'()*+,-./0123456789:;<=>?@ABCDEFGHIJKLMNOPQRSTUVWXYZ[]^_abcdefghijklmnopqrstuvwxyz{|}~"

\* ord(c), up to a monotone renumbering
Ord(c) == CHOOSE i \in 1..Len(AsciiOrder) : Char(AsciiOrder, i) = c

\* a < b for Python strings: code point order at the first difference
StrLess(a, b) ==
    LET n == IF Len(a) < Len(b) THEN Len(a) ELSE Len(b)
        diff == {i \in 1..n : Char(a, i) # Char(b, i)}
    IN  IF diff = {} THEN Len(a) < Len(b)
        ELSE LET i == Least(diff)
             IN  Ord(Char(a, i)) < Ord(Char(b, i))

\* sorted(list(S), reverse=True), which the code does not ask for
RECURSIVE SortedListDescending(_)
SortedListDescending(S) ==
    IF S = {} THEN <<>>
    ELSE LET greatest == CHOOSE a \in S : \A b \in S \ {a} : StrLess(b, a)
         IN  <<greatest>> \o SortedListDescending(S \ {greatest})

\* sorted(list(S)) for a set S of strings
RECURSIVE SortedList(_)
SortedList(S) ==
    IF S = {} THEN <<>>
    ELSE LET least == CHOOSE a \in S : \A b \in S \ {a} : StrLess(a, b)
         IN  <<least>> \o SortedList(S \ {least})

\* s.split(sep), as a sequence
RECURSIVE Split(_, _)
Split(s, sep) ==
    LET i == Find(s, sep)
    IN  IF i = 0 THEN <<s>>
        ELSE <<SubSeq(s, 1, i - 1)>> \o Split(From(s, i + Len(sep)), sep)

\* the elements of a sequence
Range(seq) == {seq[i] : i \in 1..Len(seq)}

-----------------------------------------------------------------------------
(* MSSpider.extract_variant_images *)

MS_ASSET_HOST == "https://assets.digitalcontent.marksandspencer.app"

\* `'digitalcontent.marksandspencer' in img or 'assets.digitalcontent' in img`
TrustedMS(img) ==
    Contains(img, "digitalcontent.marksandspencer") \/ Contains(img, "assets.digitalcontent")

\* "Normalize URL format"
NormalizeMS(img) ==
    IF StartsWith(img, "http") THEN img
    ELSE IF StartsWith(img, "//") THEN "https:" \o img
    ELSE MS_ASSET_HOST \o img

\* the filter that only rejects an empty last segment
NotStubMSUnfiltered(img) == Len(SplitLast(img, "/")) > 0

\* the filter with a last segment of 9 characters let through
NotStubMSShortSegments(img) ==
    /\ ~EndsWith(img, "/w_1008")
    /\ ~EndsWith(img, "/w_600")
    /\ Len(SplitLast(img, "/")) > 8

\* "Filter out incomplete URLs with only sizing parameters"
NotStubMS(img) ==
    /\ ~EndsWith(img, "/w_1008")
    /\ ~EndsWith(img, "/w_600")
    /\ Len(SplitLast(img, "/")) > 10

\* the loop body shared by the high-resolution and the fallback selectors
CollectTierMS(images) ==
    {NormalizeMS(img) :
        img \in {i \in images : i # "" /\ TrustedMS(i) /\ NotStubMS(NormalizeMS(i))}}

\* the srcset loop: the URL part of every entry of every trusted attribute
CollectSrcsetMS(images) ==
    LET entries == UNION {Range(Split(img, ",")) : img \in {i \in images : i # "" /\ TrustedMS(i)}}
        urls == {SplitFirst(Strip(e), " ") : e \in entries}
    IN  {url \in urls : url # "" /\ TrustedMS(url) /\ NotStubMS(url)}

\* the length of the match of _([A-Z0-9]{1,3})_X_ at position i of s, 0 when
\* there is none
ColorTokenMatchLen(s, i) ==
    IF Char(s, i) # "_" THEN 0
    ELSE LET ns == {n \in 1..3 :
                      /\ \A k \in 1..n : i + k <= Len(s) /\ Char(s, i + k) \in CodeChars
                      /\ MatchAt(s, i + n + 1, "_X_")}
         IN  IF ns = {} THEN 0 ELSE (CHOOSE n \in ns : TRUE) + 4

\* re.sub(r'_([A-Z0-9]{1,3})_X_', f'_{color_code}_X_', img_url), for a
\* colour code that re.sub takes literally (one without a backslash); the
\* codes it rejects are told apart by TemplateRaises
RECURSIVE SubColorToken(_, _)
SubColorToken(s, color_code) ==
    LET At(i) == SubSeq(s, 1, i - 1) \o "_" \o color_code \o "_X_" \o
                     SubColorToken(From(s, i + ColorTokenMatchLen(s, i)), color_code)
        First(hits) == IF hits = {} THEN s ELSE At(Least(hits))
    IN  First({i \in 1..Len(s) : ColorTokenMatchLen(s, i) > 0})

\* lines 365-402: the set all_image_urls
AllImageUrlsMS(page) ==
    LET Tiers(high) == IF high = {} THEN CollectTierMS(page.fallback) ELSE high
    IN  Tiers(CollectTierMS(page.high_res)) \cup CollectSrcsetMS(page.srcset)

\* lines 412-426, one pass of `for img_url in all_image_urls`: whether the
\* URL holds the colour code (`f"_{color_code}_" in img_url or
\* f"_{color_code}." in img_url`), and what the substitution makes of it
ClassifyMS(img_url, color_code) ==
    [img_url |-> img_url,
     found |-> \/ Contains(img_url, "_" \o color_code \o "_")
               \/ Contains(img_url, "_" \o color_code \o "."),
     modified_url |-> SubColorToken(img_url, color_code)]

\* the colour-specific set without the URLs the substitution generated
ColorSpecificMSFoundOnly(classified) ==
    {c.img_url : c \in {d \in classified : d.found}}

\* the set color_specific_images after the loop
ColorSpecificMS(classified) ==
    {c.img_url : c \in {d \in classified : d.found}} \cup
    {c.modified_url : c \in {d \in classified : ~d.found /\ d.modified_url # d.img_url}}

\* the set generic_images after the loop
GenericMS(classified) ==
    {c.img_url : c \in {d \in classified : ~d.found /\ d.modified_url = d.img_url}}

\* the final selection without the generic images
FinalImagesMSColorOnly(color_specific_images, generic_images, all_image_urls) ==
    IF color_specific_images # {} THEN color_specific_images ELSE all_image_urls

\* the final selection that never falls back to all collected URLs
FinalImagesMSNoFallback(color_specific_images, generic_images, all_image_urls) ==
    color_specific_images \cup generic_images

\* lines 430-436: `final_images`
FinalImagesMS(color_specific_images, generic_images, all_image_urls) ==
    IF color_specific_images # {} THEN color_specific_images \cup generic_images
    ELSE all_image_urls

\* the local sets of extract_variant_images when it returns
ExtractVariantImagesLocals(page, color_code) ==
    LET Selected(all, specific, generic) ==
            [all_image_urls |-> all,
             color_specific_images |-> specific,
             generic_images |-> generic,
             final_images |-> FinalImagesMS(specific, generic, all)]
        Sorted(all, classified) ==
            Selected(all, ColorSpecificMS(classified), GenericMS(classified))
        Classified(all) ==
            Sorted(all, IF Truthy(color_code)
                        THEN {ClassifyMS(u, color_code) : u \in all}
                        ELSE {})
    IN  Classified(AllImageUrlsMS(page))

\* extract_variant_images(response, color_code)
extract_variant_images(page, color_code) ==
    SortedList(ExtractVariantImagesLocals(page, color_code).final_images)

\* re.sub parses its replacement before it looks for a match, and raises
\* re.error("bad escape ...") on a backslash followed by an ASCII letter that
\* names no escape of a replacement; a backslash is read as the start of an
\* escape when an even number of backslashes stands before it
TemplateRaises(template) ==
    \E i \in 1..(Len(template) - 1) :
        /\ Char(template, i) = "\\"
        /\ RunLengthBack(template, i - 1, {"\\"}) % 2 = 0
        /\ Char(template, i + 1) \in Letters \ {"a", "b", "f", "g", "n", "r", "t", "v"}

\* extract_variant_images raises: line 419 is reached, for a URL that does
\* not hold the colour code, with a replacement re.sub rejects
ExtractVariantImagesRaises(page, color_code) ==
    /\ Truthy(color_code)
    /\ TemplateRaises("_" \o color_code \o "_X_")
    /\ \E img_url \in AllImageUrlsMS(page) : ~ClassifyMS(img_url, color_code).found

\* ---- the pages image resolution is run on

\* a colour-specific image of colour Y0, and the same image of colour F4
MSImageY0 == MS_ASSET_HOST \o "/image/upload/SD_01_T12_Y0_X_EC_0"
MSImageF4 == MS_ASSET_HOST \o "/image/upload/SD_01_T12_F4_X_EC_0"

\* how many values the high-resolution selectors return
MaxTierImages == 2

\* what the selectors find: up to MaxTierImages attribute values
\* (data-hover-image-src) of the carousel's img elements, at most one src
\* value for the fallback selectors and at most one srcset value
MSImagePages ==
    LET ImagePool ==
            { MSImageY0,
              MSImageF4,
              MS_ASSET_HOST \o "/image/upload/SD_01_T12_F4.jpg",
              MS_ASSET_HOST \o "/image/upload/S_Y0_X_EC_0",
              MS_ASSET_HOST \o "/image/upload/SD_01_T12_lifestyle",
              MS_ASSET_HOST \o "/image/upload/q_auto/w_600",
              MS_ASSET_HOST \o "/image/upload/thumb.jpg",
              "//assets.digitalcontent.marksandspencer.app/image/upload/SD_01_T12_Y0_X_EC_1",
              "https://cdn.example.com/image/upload/SD_01_T12_Y0_X_EC_0" }
        FallbackPool ==
            { "/digitalcontent.marksandspencer/size_guide_banner.jpg",
              MSImageY0 \o "/w_1008",
              MS_ASSET_HOST \o "/image/upload/SD_01_T12_F4_X_EC_3" }
        SrcsetPool ==
            { MSImageY0 \o "/w_600 600w, " \o MSImageY0 \o " 1008w",
              "//assets.digitalcontent.marksandspencer.app/image/upload/SD_01_T12_F4_X_EC_2 2x",
              MS_ASSET_HOST \o "/image/upload/SD_01_T12_model 1x, https://cdn.example.com/image/upload/SD_01_T12_Y0_X_EC_5 2x" }
        Optional(S) == {{}} \cup {{x} : x \in S}
    IN  [high_res : {T \in SUBSET ImagePool : Cardinality(T) <= MaxTierImages},
         fallback : Optional(FallbackPool),
         srcset : Optional(SrcsetPool)]

NoImages == [high_res |-> {}, fallback |-> {}, srcset |-> {}]

NoLocals ==
    [all_image_urls |-> {}, color_specific_images |-> {}, generic_images |-> {},
     final_images |-> {}]

ImagesIdle ==
    /\ img_pc = "idle"
    /\ img_page = NoImages
    /\ img_color_code = None
    /\ img_locals = NoLocals
    /\ img_result = <<>>

\* extract_variant_images(response, color_code) runs
ResolveImages ==
    /\ img_pc = "call"
    /\ img_pc' = "returned"
    /\ img_locals' = ExtractVariantImagesLocals(img_page, img_color_code)
    /\ img_result' = SortedList(img_locals'.final_images)
    /\ UNCHANGED <<img_page, img_color_code>>
    /\ UNCHANGED <<price_site, price_raw, price_once, price_twice,
                 pc, clicks, collected_images, stable_count_iterations, last_growth,
                 spider, scheduled, emitted, successful_products, failed_products,
                 total_variants_found, seen, responses, last_call, running>>

-----------------------------------------------------------------------------
(* Requests, responses and what a callback yields *)

\* scrapy.Request / response.follow: the callback, the URL and the entries of
\* meta that the callbacks read back; the only requests built with an errback
\* are the variant requests, and they are the ones built with dont_filter=True
Request(callback, url, variant_id, color_name, errback) ==
    [callback |-> callback, url |-> url, variant_id |-> variant_id,
     color_name |-> color_name, errback |-> errback, dont_filter |-> errback]

\* what one call of a callback does: the requests and items it yields, in
\* order, its appends to failed_products, its adds to successful_products and
\* its increment of total_variants_found
Yield(requests, items, failures, successes, found) ==
    [requests |-> requests, items |-> items, failures |-> failures,
     successes |-> successes, found |-> found]

Nothing == Yield(<<>>, <<>>, <<>>, {}, 0)

\* response.follow(link) for the two kinds of link the pages hold: an absolute
\* URL, and a path that starts with a slash, which is joined to the scheme and
\* host of the URL of the response
Follow(response_url, link) ==
    LET Upto(scheme, slash) ==
            IF slash = 0 THEN response_url ELSE SubSeq(response_url, 1, scheme + 1 + slash)
        Origin(scheme) == Upto(scheme, Find(From(response_url, scheme + 3), "/"))
    IN  IF StartsWith(link, "http") THEN link ELSE Origin(Find(response_url, "://")) \o link

\* s.split(sep)[1]; it raises IndexError when sep is not in s
SecondPart(s, sep) == SplitFirst(From(s, Find(s, sep) + Len(sep)), sep)

\* a chain that keeps looking after a hit: the last truthy one, else the last
LastTruthy(values) ==
    LET Pick(hits) == IF hits = {} THEN values[Len(values)] ELSE values[Greatest(hits)]
    IN  Pick({k \in 1..Len(values) : Truthy(values[k])})

\* `a or b or c` over the results of .get(): the first truthy one, else the last
FirstTruthy(values) ==
    LET Pick(hits) == IF hits = {} THEN values[Len(values)] ELSE values[Least(hits)]
    IN  Pick({k \in 1..Len(values) : Truthy(values[k])})

\* str(v) inside an f-string
Format(v) == IF v = None THEN "None" ELSE v

\* a ProductItem whose image_url is image_urls[-1], not image_urls[0]
ProductItemLastImage(name, product_id, url, price, color_name, color_code, image_urls) ==
    [name |-> name, product_id |-> product_id, url |-> url, price |-> price,
     color_name |-> color_name, color_code |-> color_code,
     image_urls |-> image_urls,
     image_count |-> Len(image_urls),
     image_url |-> IF image_urls # <<>> THEN image_urls[Len(image_urls)] ELSE None]

\* the ProductItem a callback fills; the last three fields are set together
\* in every spider, from the sorted list of image URLs
ProductItem(name, product_id, url, price, color_name, color_code, image_urls) ==
    [name |-> name, product_id |-> product_id, url |-> url, price |-> price,
     color_name |-> color_name, color_code |-> color_code,
     image_urls |-> image_urls,
     image_count |-> Len(image_urls),
     image_url |-> IF image_urls # <<>> THEN image_urls[1] ELSE None]

-----------------------------------------------------------------------------
(* ProductSpider (Uniqlo) *)

\* re.compile(r'/products/E\d{6}-\d{3}').search(url)
UniqloProductUrl(url) ==
    \E i \in 1..Len(url) :
        /\ MatchAt(url, i, "/products/E")
        /\ i + 20 <= Len(url)
        /\ Chars(SubSeq(url, i + 11, i + 16)) \subseteq Digits
        /\ Char(url, i + 17) = "-"
        /\ Chars(SubSeq(url, i + 18, i + 20)) \subseteq Digits

\* ProductSpider.parse
ProductSpider_parse(response) ==
    Yield([k \in 1..Len(response.page.sitemap_urls) |->
              IF UniqloProductUrl(response.page.sitemap_urls[k])
              THEN Request("parse_product",
                           Follow(response.url, response.page.sitemap_urls[k]),
                           None, None, FALSE)
              ELSE Request("parse_category", response.page.sitemap_urls[k],
                           None, None, FALSE)],
          <<>>, <<>>, {}, 0)

\* ProductSpider.parse_category
ProductSpider_parse_category(response) ==
    Yield([k \in 1..Len(response.page.product_links) |->
              Request("parse_product", Follow(response.url, response.page.product_links[k]),
                      None, None, FALSE)],
          <<>>, <<>>, {}, 0)

\* img.split('?')[0] with the high resolution asked for
UniqloHighRes(img) == SplitFirst(img, "?") \o "?width=750"

\* the images of parse_product_variant, lines 356-391
ProductSpider_image_urls(page, color_code, base_product_id) ==
    LET Matches(img) ==
            \/ Contains(img, "goods_" \o color_code \o "_" \o base_product_id)
            \/ Contains(img, "ingoods_" \o color_code \o "_" \o base_product_id)
        Choose(images, specific) ==
            IF specific = {} THEN {UniqloHighRes(img) : img \in images} ELSE specific
        Among(images) ==
            Choose(images,
                   IF Truthy(color_code)
                   THEN {UniqloHighRes(img) : img \in {i \in images : Matches(i)}}
                   ELSE {})
    IN  SortedList(Among({img \in page.main_images : img # ""}))

\* an id without the COL marker between the base id and the colour code
UniqloVariantIdUnmarked(base_product_id, color_code) == base_product_id \o "-" \o color_code

\* the id a variant request carries, line 267, and the parts
\* parse_product_variant takes it apart into, lines 330-331
UniqloVariantId(base_product_id, color_code) == base_product_id \o "-COL" \o color_code
UniqloColorCode(variant_id) ==
    IF Truthy(variant_id) THEN SplitLast(variant_id, "-COL") ELSE None
UniqloBaseProductId(variant_id) ==
    IF Truthy(variant_id) THEN SplitFirst(variant_id, "-COL") ELSE None

\* ProductSpider.parse_product_variant; variant_id and color_name come out of
\* the meta of the response
ProductSpider_parse_product_variant(response, variant_id, color_name) ==
    LET Item(product_name, product_price) ==
            IF ~Truthy(product_name) \/ ~Truthy(product_price)
            THEN Yield(<<>>, <<>>,
                       <<<<"Missing required fields: product_name or product_price",
                           variant_id>>>>,
                       {}, 0)
            ELSE Yield(<<>>,
                       <<ProductItem(
                            IF Truthy(color_name)
                            THEN Strip(product_name) \o " - " \o color_name
                            ELSE Strip(product_name),
                            variant_id, response.url, CleanPriceUniqlo(product_price),
                            color_name, UniqloColorCode(variant_id),
                            ProductSpider_image_urls(response.page,
                                                     UniqloColorCode(variant_id),
                                                     UniqloBaseProductId(variant_id)))>>,
                       <<>>, {variant_id}, 0)
    IN  Item(response.page.title, FirstTruthy(response.page.prices))

\* ProductSpider.parse_product
ProductSpider_parse_product(response) ==
    LET Variants(base_url, base_product_id, coded, color_count) ==
            Yield([k \in 1..Len(coded) |->
                      Request("parse_product_variant",
                              base_url \o "?colorCode=COL" \o coded[k].value,
                              UniqloVariantId(base_product_id, coded[k].value),
                              coded[k].aria_label, TRUE)],
                  <<>>, <<>>, {}, color_count)
        Dispatch(base_url, actual_colors) ==
            IF actual_colors = <<>>
            THEN \* lines 290-307: a single product, parsed from this response
                 IF ~Contains(response.url, "/products/") THEN Nothing
                 ELSE ProductSpider_parse_product_variant(
                          response,
                          SplitFirst(SecondPart(response.url, "/products/"), "?"), None)
            ELSE IF ~Contains(base_url, "/products/")
            THEN Yield(<<>>, <<>>, <<>>, {}, Len(actual_colors))
            ELSE Variants(base_url, SecondPart(base_url, "/products/"),
                          SelectSeq(actual_colors, LAMBDA chip : Truthy(chip.value)),
                          Len(actual_colors))
    IN  Dispatch(SplitFirst(response.url, "?"),
                 SelectSeq(response.page.chips, LAMBDA chip : chip.color))

-----------------------------------------------------------------------------
(* MSSpider (Marks & Spencer) *)

\* the positions where r'/p/P\w+\.html' matches
MSProductMatches(url) ==
    {i \in 1..Len(url) :
        /\ MatchAt(url, i, "/p/P")
        /\ RunLength(url, i + 4, WordChars) >= 1
        /\ MatchAt(url, i + 4 + RunLength(url, i + 4, WordChars), ".html")}

\* re.compile(r'/p/P\w+\.html(?:\?.*)?').search(url)
MSProductUrl(url) == MSProductMatches(url) # {}

\* re.search(r'/p/(P\w+)\.html', base_url).group(1)
MSProductId(base_url) ==
    LET Group(i) == SubSeq(base_url, i + 3, i + 3 + RunLength(base_url, i + 4, WordChars))
    IN  Group(Least(MSProductMatches(base_url)))

\* a parse that follows every URL of the sitemap as a product page
MSSpider_parse_every_url(response) ==
    Yield([k \in 1..Len(response.page.sitemap_urls) |->
              Request("parse_product", Follow(response.url, response.page.sitemap_urls[k]),
                      None, None, FALSE)],
          <<>>, <<>>, {}, 0)

\* MSSpider.parse
MSSpider_parse(response) ==
    LET Requests(product_urls) ==
            Yield([k \in 1..Len(product_urls) |->
                      Request("parse_product", Follow(response.url, product_urls[k]),
                              None, None, FALSE)],
                  <<>>, <<>>, {}, 0)
    IN  Requests(SelectSeq(response.page.sitemap_urls, MSProductUrl))

\* re.search(r'<rupee>[\d,]+(?:\.\d{2})?', text), and with spaces true
\* re.search(r'<rupee>[\s]*[\d,]+(?:\.\d{2})?', text): the match, or None
PriceInText(text, spaces) ==
    LET Amount(i) == IF spaces THEN i + 1 + RunLength(text, i + 1, Whitespace) ELSE i + 1
        \* the end of the match of [\d,]+(?:\.\d{2})? : j is the position after the
        \* digits and commas
        End(j) == IF /\ j + 2 <= Len(text)
                     /\ Char(text, j) = "."
                     /\ Char(text, j + 1) \in Digits
                     /\ Char(text, j + 2) \in Digits
                  THEN j + 2 ELSE j - 1
        AmountEnd(a) == End(a + RunLength(text, a, Digits \cup {","}))
        Match(i) == SubSeq(text, i, AmountEnd(Amount(i)))
        First(hits) == IF hits = {} THEN None ELSE Match(Least(hits))
    IN  First({i \in 1..Len(text) :
                  /\ Char(text, i) = RUPEE
                  /\ RunLength(text, Amount(i), Digits \cup {","}) >= 1})

\* the name, lines 251-252 (and 280-281 of the Westside spider)
StripIfTruthy(s) == IF Truthy(s) THEN Strip(s) ELSE s

\* MSSpider.extract_common_product_data
MSSpider_extract_common_product_data(response) ==
    LET Price(selected) == IF Truthy(selected) THEN selected
                           ELSE PriceInText(response.page.text, FALSE)
        Clean(product_price) == IF Truthy(product_price) THEN CleanPriceMS(product_price)
                                ELSE product_price
    IN  [name |-> StripIfTruthy(FirstTruthy(response.page.names)),
         price |-> Clean(Price(FirstTruthy(response.page.prices))),
         url |-> response.url]

\* MSSpider.create_variant_item: <<item>>, or <<>> for the None that the
\* except branch returns after it has logged the exception
MSSpider_create_variant_item(response, common_data, variant_id, color_name, color_code) ==
    IF ExtractVariantImagesRaises(response.page.images, color_code) THEN <<>>
    ELSE <<ProductItem(IF Truthy(color_name)
                       THEN Format(common_data.name) \o " - " \o color_name
                       ELSE common_data.name,
                       variant_id, common_data.url, common_data.price,
                       color_name, color_code,
                       extract_variant_images(response.page.images, color_code))>>

\* MSSpider.parse_product
MSSpider_parse_product(response) ==
    LET \* `if item:` lets through the variants create_variant_item made an
        \* item for; the product_id of an item is its variant_id
        Created(made, found) ==
            Yield(<<>>,
                  [k \in 1..Len(made) |-> made[k][1]],
                  <<>>,
                  {made[k][1].product_id : k \in 1..Len(made)},
                  found)
        Items(common_data, variants, found) ==
            Created(SelectSeq([k \in 1..Len(variants) |->
                                  MSSpider_create_variant_item(
                                      response, common_data, variants[k].variant_id,
                                      variants[k].color_name, variants[k].color_code)],
                              LAMBDA item : item # <<>>),
                    found)
        Variants(product_id, valid_color_variants) ==
            Items(MSSpider_extract_common_product_data(response),
                  IF valid_color_variants # <<>>
                  THEN [k \in 1..Len(valid_color_variants) |->
                           [variant_id |-> product_id \o "-" \o valid_color_variants[k].swatchid,
                            color_name |-> FirstTruthy(<<valid_color_variants[k].attr_value,
                                                         valid_color_variants[k].swatchid>>),
                            color_code |-> valid_color_variants[k].swatchid]]
                  ELSE <<[variant_id |-> product_id, color_name |-> None,
                          color_code |-> None]>>,
                  Len(valid_color_variants))
        Options(base_url, color_options) ==
            IF ~MSProductUrl(base_url) THEN Nothing
            ELSE Variants(MSProductId(base_url),
                          SelectSeq(color_options, LAMBDA o : Truthy(o.swatchid)))
    IN  Options(SplitFirst(response.url, "?"),
                IF response.page.swatch_links # <<>>
                THEN response.page.swatch_links
                ELSE response.page.alternative_links)

-----------------------------------------------------------------------------
(* NikeSpider *)

\* re.compile(r'/in/t/[\w-]+-[A-Z0-9]+').search(url)
NikeProductUrl(url) ==
    \E i \in 1..Len(url) :
        /\ MatchAt(url, i, "/in/t/")
        /\ \E k \in (i + 7)..(i + 5 + RunLength(url, i + 6, SlugChars)) :
              /\ Char(url, k) = "-"
              /\ k + 1 <= Len(url)
              /\ Char(url, k + 1) \in CodeChars

\* NikeSpider.parse
NikeSpider_parse(response) ==
    LET Requests(product_urls) ==
            Yield([k \in 1..Len(product_urls) |->
                      Request("parse_product", Follow(response.url, product_urls[k]),
                              None, None, FALSE)],
                  <<>>, <<>>, {}, 0)
    IN  Requests(SelectSeq(response.page.sitemap_urls, NikeProductUrl))

\* sep.join(parts)
RECURSIVE Join(_, _)
Join(parts, sep) ==
    IF parts = <<>> THEN ""
    ELSE IF Len(parts) = 1 THEN parts[1]
    ELSE parts[1] \o sep \o Join(Tail(parts), sep)

\* text.split(label)[-1].strip() when the label is in the text, else None
AfterLabel(text, label) ==
    IF Truthy(text) /\ Contains(text, label) THEN Strip(SplitLast(text, label)) ELSE None

\* Strategy 2 of parse_product_variant: the URLs of the srcset attributes
NikeSrcsetUrls(srcset_images) ==
    {url \in {Strip(SplitFirst(entry, " ")) :
                entry \in {e \in UNION {Range(Split(srcset, ",")) :
                                           srcset \in {x \in srcset_images : x # ""}} :
                              Contains(e, " ")}} :
        url # ""}

\* lines 429-494: the candidate URLs, without duplicates; Strategy 3 reads a
\* selector Strategy 2 has read already, and so never adds a URL
NikeAllImages(page) ==
    {img \in IF page.collected_images # <<>>
             THEN Range(page.collected_images)
             ELSE NikeSrcsetUrls(page.srcset_images) \cup page.carousel_images
                  \cup page.preload_images \cup page.alt_images :
        img # ""}

\* lines 500-504: one accepted URL, cleaned and given the high resolution
NikeHighRes(img) ==
    LET Absolute(base_url) ==
            IF StartsWith(base_url, "http") THEN base_url
            ELSE IF StartsWith(base_url, "//") THEN "https:" \o base_url
            ELSE "https://static.nike.com" \o base_url
    IN  Absolute(SplitFirst(img, "?")) \o "?width=1728&height=1728"

\* lines 497-508
NikeSpider_image_urls(page) ==
    SortedList({NikeHighRes(img) :
                   img \in {i \in NikeAllImages(page) :
                               Contains(i, "nike.com") \/ StartsWith(i, "//")}})

\* the id a variant request carries, line 269, and the colour slug
\* parse_product_variant reads back from it, line 324
NikeVariantId(product_code, color_slug) == product_code \o "-" \o color_slug
NikeColorSlug(variant_id) ==
    IF Truthy(variant_id) /\ Contains(variant_id, "-") THEN SplitLast(variant_id, "-")
    ELSE None

\* NikeSpider.parse_product_variant; variant_id and color_name come out of the
\* meta of the response
NikeSpider_parse_product_variant(response, variant_id, color_name) ==
    LET NoneIfBlank(value) == IF ~Truthy(value) \/ Strip(value) = "" THEN None ELSE value
        \* lines 363-371: the text of the alternate selector, split all the same
        Alternate(text, label) == IF Truthy(text) THEN Strip(SplitLast(text, label)) ELSE None
        FullName(product_name, product_subtitle) ==
            IF Truthy(product_subtitle)
            THEN Strip(Format(product_name) \o " " \o product_subtitle)
            ELSE product_name
        Item(product_name, product_price, full_product_name, final_color_name,
             final_color_code) ==
            IF ~Truthy(product_name) \/ ~Truthy(product_price)
            THEN Yield(<<>>, <<>>, <<<<"Missing required fields", variant_id>>>>, {}, 0)
            ELSE Yield(<<>>,
                       <<ProductItem(
                            IF Truthy(final_color_name)
                            THEN Strip(full_product_name) \o " - " \o final_color_name
                            ELSE Strip(full_product_name),
                            variant_id, response.url, CleanPriceNike(product_price),
                            final_color_name, final_color_code,
                            NikeSpider_image_urls(response.page))>>,
                       <<>>, {variant_id}, 0)
        Named(product_name) ==
            Item(product_name,
                 FirstTruthy(response.page.prices),
                 FullName(product_name, FirstTruthy(response.page.subtitles \o <<"">>)),
                 NoneIfBlank(FirstTruthy(
                     <<AfterLabel(Join(response.page.description_color, " "), "Colour Shown:"),
                       Alternate(response.page.alt_color, "Colour Shown:"),
                       color_name>>)),
                 NoneIfBlank(FirstTruthy(
                     <<AfterLabel(Join(response.page.style_text, " "), "Style:"),
                       Alternate(response.page.alt_style, "Style:"),
                       NikeColorSlug(variant_id)>>)))
    IN  Named(FirstTruthy(response.page.titles))

\* NikeSpider.parse_product
NikeSpider_parse_product(response) ==
    LET Variants(product_code, linked, color_count) ==
            Yield([k \in 1..Len(linked) |->
                      Request("parse_product_variant",
                              "https://www.nike.com" \o linked[k].href,
                              NikeVariantId(product_code, SplitLast(linked[k].href, "/")),
                              linked[k].alt, TRUE)],
                  <<>>, <<>>, {}, color_count)
        Dispatch(base_url, color_options) ==
            IF color_options = <<>>
            THEN NikeSpider_parse_product_variant(
                     response, SplitLast(SplitLast(response.url, "/"), "-"), None)
            ELSE IF ~Contains(base_url, "/t/")
            THEN Yield(<<>>, <<>>, <<>>, {}, Len(color_options))
            ELSE Variants(SplitLast(SplitLast(base_url, "/"), "-"),
                          SelectSeq(color_options,
                                    LAMBDA o : Truthy(o.href) /\ Contains(o.href, "/")),
                          Len(color_options))
    IN  Dispatch(SplitFirst(response.url, "?"), response.page.colorway_links)

-----------------------------------------------------------------------------
(* WestsideSpider *)

\* WestsideSpider.parse
WestsideSpider_parse(response) ==
    LET Requests(product_sitemaps) ==
            Yield([k \in 1..Len(product_sitemaps) |->
                      Request("parse_product_sitemap",
                              Follow(response.url, product_sitemaps[k]), None, None, FALSE)],
                  <<>>, <<>>, {}, 0)
    IN  Requests(SelectSeq(response.page.sitemap_urls,
                           LAMBDA u : Contains(u, "sitemap_products_")))

\* the digits r'/products/[\w-]+-(\d+)$' captures in url, or None without a
\* match; `$` matches at the end, and just before a final newline
WestsideProductId(url) ==
    LET Captured(e, dash, start) ==
            IF /\ dash < e
               /\ dash >= 1
               /\ Char(url, dash) = "-"
               /\ start < dash
               /\ start - 10 >= 1
               /\ SubSeq(url, start - 10, start - 1) = "/products/"
            THEN SubSeq(url, dash + 1, e) ELSE None
        Slug(e, dash) == Captured(e, dash, dash - RunLengthBack(url, dash - 1, SlugChars))
        Number(e) == Slug(e, e - RunLengthBack(url, e, Digits))
    IN  Number(IF EndsWith(url, "\n") THEN Len(url) - 1 ELSE Len(url))

\* WestsideSpider.parse_product_sitemap
WestsideSpider_parse_product_sitemap(response) ==
    LET Requests(product_urls) ==
            Yield([k \in 1..Len(product_urls) |->
                      Request("parse_product", Follow(response.url, product_urls[k]),
                              None, None, FALSE)],
                  <<>>, <<>>, {}, 0)
    IN  Requests(SelectSeq(response.page.product_urls,
                           LAMBDA u : WestsideProductId(u) # None))

\* WestsideSpider.extract_common_product_data
WestsideSpider_extract_common_product_data(response) ==
    LET Price(selected) == IF Truthy(selected) THEN selected
                           ELSE PriceInText(response.page.text, TRUE)
        Clean(product_price) == IF Truthy(product_price)
                                THEN CleanPriceWestside(product_price)
                                ELSE product_price
    IN  [name |-> StripIfTruthy(FirstTruthy(response.page.names)),
         price |-> Clean(Price(FirstTruthy(response.page.prices))),
         url |-> response.url]

\* re.search(r"location\.href='([^']+)'", onclick).group(1), or None
OnclickUrl(onclick) ==
    LET Quoted(rest) == SubSeq(rest, 1, Find(rest, "'") - 1)
        First(hits) == IF hits = {} THEN None
                       ELSE Quoted(From(onclick, Least(hits) + Len("location.href='")))
    IN  First({i \in Occurrences(onclick, "location.href='") :
                  Find(From(onclick, i + Len("location.href='")), "'") > 1})

\* lines 183-201: the tooltip of the first swatch that links to the page itself
SwatchColor(color_swatches, current_url) ==
    LET First(hits) == IF hits = {} THEN None
                       ELSE Strip(color_swatches[Least(hits)].tooltip)
    IN  First({k \in 1..Len(color_swatches) :
                  /\ Truthy(color_swatches[k].onclick)
                  /\ Contains(color_swatches[k].onclick, "location.href=")
                  /\ OnclickUrl(color_swatches[k].onclick) = current_url
                  /\ Truthy(StripIfTruthy(color_swatches[k].tooltip))})

\* the alternatives of the two colour patterns of lines 208-211: plain words,
\* and a leading word followed by any word
ColorPatterns ==
    << [words |-> {"white", "black", "blue", "red", "green", "yellow", "pink", "purple",
                   "orange", "brown", "grey", "gray", "beige", "navy", "olive"},
        lead |-> "dusty"],
       [words |-> {"ivory", "cream", "tan", "charcoal", "wine", "taupe", "sage", "rust",
                   "indigo", "mustard"},
        lead |-> "dark"] >>

\* the end of the match of r'\b(words|lead\s+\w+)\b' that starts at position i, or 0
ColorMatchEnd(s, i, words, lead) ==
    LET Ends(w, gap, next) ==
            IF w = 0 \/ (i > 1 /\ Char(s, i - 1) \in WordChars) THEN 0
            ELSE IF SubSeq(s, i, i + w - 1) \in words THEN i + w - 1
            ELSE IF SubSeq(s, i, i + w - 1) = lead /\ gap >= 1 /\ next >= 1
            THEN i + w + gap + next - 1
            ELSE 0
        Next2(w, gap) == Ends(w, gap, RunLength(s, i + w + gap, WordChars))
        Next1(w) == Next2(w, RunLength(s, i + w, Whitespace))
    IN  Next1(RunLength(s, i, WordChars))

\* re.search(pattern, s).group(1), or None
ColorMatch(s, words, lead) ==
    LET First(hits) == IF hits = {} THEN None
                       ELSE SubSeq(s, Least(hits), ColorMatchEnd(s, Least(hits), words, lead))
    IN  First({i \in 1..Len(s) : ColorMatchEnd(s, i, words, lead) > 0})

\* str.title()
Title(s) ==
    LET RECURSIVE Build(_)
        Build(i) ==
            IF i > Len(s) THEN ""
            ELSE (IF i = 1 \/ Char(s, i - 1) \notin Letters
                  THEN UpperChar(Char(s, i)) ELSE LowerChar(Char(s, i))) \o Build(i + 1)
    IN  Build(1)

\* lines 204-219: the colour read out of the product name, or None
NameColor(product_name) ==
    LET Found(color_match) == IF color_match = None THEN None ELSE Title(color_match)
        Second(name, first) ==
            Found(IF first # None THEN first ELSE ColorMatch(name, ColorPatterns[2].words, ColorPatterns[2].lead))
        First(name) == Second(name, ColorMatch(name, ColorPatterns[1].words, ColorPatterns[1].lead))
    IN  IF ~Truthy(product_name) THEN None ELSE First(Lower(product_name))

\* img with the protocol fixed, lines 353-356 (and 383-386, 390-393)
WestsideAbsolute(img) ==
    IF StartsWith(img, "//") THEN "https:" \o img
    ELSE IF ~(StartsWith(img, "http://") \/ StartsWith(img, "https://"))
    THEN "https://" \o img
    ELSE img

\* re.search(r'\d{3}_\d+_\d+copy', base_img)
IsSwatchImage(base_img) ==
    \E i \in 1..Len(base_img) :
        LET Tail2(d1, d2) == d1 >= 1 /\ d2 >= 1 /\ MatchAt(base_img, i + 5 + d1 + d2, "copy")
            Tail1(d1) == /\ MatchAt(base_img, i + 4 + d1, "_")
                         /\ Tail2(d1, RunLength(base_img, i + 5 + d1, Digits))
        IN  /\ i + 3 <= Len(base_img)
            /\ Chars(SubSeq(base_img, i, i + 2)) \subseteq Digits
            /\ Char(base_img, i + 3) = "_"
            /\ Tail1(RunLength(base_img, i + 4, Digits))

\* lines 342-369: the gallery images that are kept
WestsideGalleryImages(page) ==
    {base_img \o "?v=1&width=1200" :
        base_img \in {b \in {SplitFirst(WestsideAbsolute(img), "?") :
                               img \in {i \in page.gallery_images \cup page.fancybox_images :
                                           /\ i # ""
                                           /\ \/ Contains(i, "cdn.shopify.com")
                                              \/ Contains(i, "westside.com")}} :
                         ~IsSwatchImage(b)}}

\* lines 373-396: the images of the JSON-LD blocks; a block is what json.loads
\* makes of it, as far as the code looks: the string values under 'image'
WestsideJsonLdImages(page) ==
    {WestsideAbsolute(img) \o "?v=1&width=1200" :
        img \in {i \in UNION {Range(block.image) : block \in Range(page.json_scripts)} :
                    Contains(i, "cdn.shopify.com")}}

\* WestsideSpider.create_variant_item
WestsideSpider_create_variant_item(response, common_data, variant_id, color_name, color_code) ==
    LET Images(gallery) == IF gallery = {} THEN WestsideJsonLdImages(response.page)
                           ELSE gallery
    IN  ProductItem(common_data.name, variant_id, common_data.url, common_data.price,
                    color_name, color_code,
                    SortedList(Images(WestsideGalleryImages(response.page))))

\* the id of the record, lines 222-225
WestsideVariantId(product_id, color_name, color_code) ==
    IF Truthy(color_name) THEN product_id \o "-" \o color_code ELSE product_id

\* WestsideSpider.parse_product
WestsideSpider_parse_product(response) ==
    LET Item(common_data, variant_id, color_name) ==
            Yield(<<>>,
                  <<WestsideSpider_create_variant_item(response, common_data, variant_id,
                                                       color_name, color_name)>>,
                  <<>>, {variant_id}, 0)
        Colored(product_id, common_data, color_name) ==
            Item(common_data, WestsideVariantId(product_id, color_name, color_name),
                 color_name)
        Swatched(product_id, common_data, swatch_color) ==
            Colored(product_id, common_data,
                    IF Truthy(swatch_color) THEN swatch_color
                    ELSE NameColor(common_data.name))
        Identified(product_id) ==
            IF product_id = None THEN Nothing
            ELSE Swatched(product_id, WestsideSpider_extract_common_product_data(response),
                          SwatchColor(response.page.color_swatches, response.url))
    IN  Identified(WestsideProductId(response.url))

-----------------------------------------------------------------------------
(* Request failures *)

\* errback_httpbin of ProductSpider and NikeSpider; a failure is its request,
\* whether it is an instance of the builtin TimeoutError, and str(failure.value)
errback_httpbin(failure) ==
    Yield(<<>>, <<>>,
          << <<IF failure.is_timeout_error THEN "Timeout Error" ELSE failure.value,
               failure.request.variant_id>> >>,
          {}, 0)

-----------------------------------------------------------------------------
(* The pages of the Uniqlo site *)

UniqloProductPath == "/in/en/products/E123456-000"

\* the <loc> entries of the sitemap: a product page and a category page
UniqloSitemapPages ==
    LET Category == "https://www.uniqlo.com/in/en/women/tops"
    IN  {[sitemap_urls |-> <<"https://www.uniqlo.com" \o UniqloProductPath, Category>>],
         [sitemap_urls |-> <<Category>>]}

\* the hrefs of the product cards of a category page
UniqloCategoryPages ==
    {[product_links |-> <<UniqloProductPath \o "?colorDisplayCode=09">>],
     [product_links |-> <<>>]}

\* a product page: the elements of the colour picker (whether each holds a
\* colour label, the value of its radio input and the aria-label of its
\* caption) and what the title, price and image selectors find
UniqloProductPages ==
    LET Chip(color, value, aria_label) ==
            [color |-> color, value |-> value, aria_label |-> aria_label]
        Image(name) == "https://image.uniqlo.com/456/" \o name
        Pickers ==
            {<<Chip(TRUE, "09", "BLACK"), Chip(TRUE, "69", "NAVY"), Chip(FALSE, "003", None)>>,
             <<Chip(TRUE, "09", "BLACK"), Chip(TRUE, "09", "BLACK")>>,
             <<Chip(TRUE, None, "RED"), Chip(TRUE, "00", None)>>,
             <<Chip(FALSE, "004", None)>>,
             <<>>}
        Details ==
            {[title |-> " AIRism Tee ",
              prices |-> <<None, None, "1,990.00">>,
              main_images |-> {Image("goods_09_E123456-000.jpg?width=369"),
                               Image("goods_69_E123456-000.jpg"),
                               Image("ingoods_09_E123456-000_1.jpg?width=369"), ""}],
             [title |-> "AIRism Tee",
              prices |-> <<" 990.00", None, "1,990.00">>,
              main_images |-> {Image("sub01.jpg"), Image("sub01.jpg?width=90")}],
             [title |-> None, prices |-> <<None, None, None>>, main_images |-> {}]}
    IN  {[chips |-> chips, title |-> d.title, prices |-> d.prices,
          main_images |-> d.main_images] : chips \in Pickers, d \in Details}

-----------------------------------------------------------------------------
(* The pages of the Nike site *)

NikeProductPath == "/in/t/air-max-dn8-shoes-JrvK2P/IB6197-229"

NikeSitemapPages ==
    {[sitemap_urls |-> <<"https://www.nike.com" \o NikeProductPath,
                         "https://www.nike.com/in/help">>]}

\* a product page: the links of the colourway picker (the href of each and
\* the alt text of its image) and what the selectors of parse_product_variant
\* find. collected_images is what lines 434-443 read from a script element
\* of the page that assigns window.nikeCollectedImages a JSON array;
\* window_images is the set click_through_carousel left in the property
\* window.nikeCollectedImages of the page (line 161), which is no element of
\* the page: page.evaluate runs the assignment and adds no script to the
\* document the response is made from
NikeProductPages ==
    LET Colorway(href, alt) == [href |-> href, alt |-> alt]
        Image(name) == "https://static.nike.com/a/images/" \o name
        Pickers ==
            {<<Colorway(NikeProductPath, "Olive"),
               Colorway("/in/t/air-max-dn8-shoes-JrvK2P/IB6197-100", None)>>,
             <<Colorway(None, "Olive")>>,
             <<>>}
        Details ==
            {[titles |-> <<"Nike Air Max Dn8", None, "Air Max Dn8 Shoes">>,
              subtitles |-> <<"Men's Shoes", None>>,
              description_color |-> <<"Colour Shown: ", "Olive/Black">>,
              style_text |-> <<"Style: ", "IB6197-229">>,
              alt_color |-> None, alt_style |-> None,
              prices |-> <<"MRP : " \o RUPEE \o " 7,495.00", None, None,
                           RUPEE \o " 8,995.00">>,
              window_images |-> {}, collected_images |-> <<>>,
              carousel_images |-> {Image("dn8-1.png"), ""},
              preload_images |-> {"//cdn.example.com/dn8-zoom.png"},
              srcset_images |-> {Image("dn8-1.png?w=640") \o " 1x, //static.nike.com/dn8-2.png 2x"},
              alt_images |-> {Image("dn8-1.png"), "/assets/nike.com/logo.svg",
                              "https://cdn.example.com/pixel.gif"}],
             [titles |-> <<None, " Nike Cap ", None>>,
              subtitles |-> <<None, None>>,
              description_color |-> <<>>,
              style_text |-> <<>>,
              alt_color |-> None, alt_style |-> None,
              prices |-> <<None, RUPEE \o " 995.00", None, None>>,
              window_images |-> {}, collected_images |-> <<>>,
              carousel_images |-> {}, preload_images |-> {}, srcset_images |-> {},
              alt_images |-> {}],
             [titles |-> <<None, None, None>>,
              subtitles |-> <<None, None>>,
              description_color |-> <<>>,
              style_text |-> <<>>,
              alt_color |-> None, alt_style |-> None,
              prices |-> <<None, None, None, None>>,
              window_images |-> {}, collected_images |-> <<>>,
              carousel_images |-> {}, preload_images |-> {}, srcset_images |-> {},
              alt_images |-> {}],
             [titles |-> <<None, " Nike Cap ", None>>,
              subtitles |-> <<None, None>>,
              description_color |-> <<>>,
              style_text |-> <<>>,
              alt_color |-> None, alt_style |-> None,
              prices |-> <<None, RUPEE \o " 995.00", None, None>>,
              window_images |-> {Image("cap-1.png"), Image("cap-2.png"), Image("cap-3.png")},
              collected_images |-> <<>>,
              carousel_images |-> {Image("cap-3.png")}, preload_images |-> {},
              srcset_images |-> {}, alt_images |-> {}],
             [titles |-> <<None, " Nike Cap ", None>>,
              subtitles |-> <<None, None>>,
              description_color |-> <<>>,
              style_text |-> <<>>,
              alt_color |-> None, alt_style |-> None,
              prices |-> <<None, RUPEE \o " 995.00", None, None>>,
              window_images |-> {},
              collected_images |-> <<Image("cap-1.png"), Image("cap-2.png")>>,
              carousel_images |-> {Image("cap-3.png")}, preload_images |-> {},
              srcset_images |-> {}, alt_images |-> {}]}
    IN  {[colorway_links |-> links, titles |-> d.titles, subtitles |-> d.subtitles,
          description_color |-> d.description_color, style_text |-> d.style_text,
          alt_color |-> d.alt_color, alt_style |-> d.alt_style, prices |-> d.prices,
          window_images |-> d.window_images,
          collected_images |-> d.collected_images, carousel_images |-> d.carousel_images,
          preload_images |-> d.preload_images, srcset_images |-> d.srcset_images,
          alt_images |-> d.alt_images] : links \in Pickers, d \in Details}

-----------------------------------------------------------------------------
(* The pages of the Marks & Spencer site *)

MSSitemapPages ==
    {[sitemap_urls |-> <<"https://www.marksandspencer.in/p/P60123456.html",
                         "https://www.marksandspencer.in/l/women",
                         "https://www.marksandspencer.in/p/P60654321.html">>]}

\* a product page: the swatch links the first selector finds and those the
\* alternative ones find (the data-swatchid of each and the data-attr-value of
\* its circle), what the name and price selectors and the page text hold, and
\* the gallery
MSProductPages ==
    LET Swatch(swatchid, attr_value) == [swatchid |-> swatchid, attr_value |-> attr_value]
        Pickers ==
            {[swatch_links |-> <<Swatch("Y0", "Black"), Swatch("F4", None)>>,
              alternative_links |-> <<>>],
             [swatch_links |-> <<Swatch("Y0", "Black"), Swatch("Y0", "Black Mix")>>,
              alternative_links |-> <<>>],
             [swatch_links |-> <<>>, alternative_links |-> <<Swatch(None, "Red")>>],
             [swatch_links |-> <<Swatch("T\\q", "Teal"), Swatch("F4", "Navy")>>,
              alternative_links |-> <<>>],
             [swatch_links |-> <<>>, alternative_links |-> <<>>]}
        Details ==
            {[names |-> <<None, None, " Pure Cotton Shirt ", "Shirts">>,
              prices |-> <<None, None, None, None, RUPEE \o " 1,299.00", None, "1599.00">>,
              text |-> ""],
             [names |-> <<None, None, None, None>>,
              prices |-> <<None, None, None, None, None, None, None>>,
              text |-> "Now " \o RUPEE \o "2,499.00 only"],
             [names |-> <<"Linen Shirt", None, None, None>>,
              prices |-> <<None, None, None, None, None, None, None>>,
              text |-> "Sold out"]}
        Galleries ==
            {[high_res |-> {MSImageY0, MSImageF4}, fallback |-> {}, srcset |-> {}],
             NoImages}
    IN  {[swatch_links |-> links.swatch_links, alternative_links |-> links.alternative_links,
          names |-> d.names, prices |-> d.prices, text |-> d.text, images |-> g] :
            links \in Pickers, d \in Details, g \in Galleries}

-----------------------------------------------------------------------------
(* The pages of the Westside site *)

WestsideProductUrl == "https://www.westside.com/products/nuon-blue-shirt-301008799"

WestsideSitemapPages ==
    {[sitemap_urls |-> <<"https://www.westside.com/sitemap_products_1.xml?from=1&to=2",
                         "https://www.westside.com/sitemap_pages_1.xml">>]}

WestsideProductSitemapPages ==
    {[product_urls |-> <<WestsideProductUrl, "https://www.westside.com/collections/men">>]}

\* a product page: the colour swatches (the text of the tooltip of each and
\* the onclick of its label), what the name and price selectors and the page
\* text hold, the gallery and the JSON-LD blocks
WestsideProductPages ==
    LET ColorSwatch(tooltip, onclick) == [tooltip |-> tooltip, onclick |-> onclick]
        Image(name) == "//cdn.shopify.com/s/files/" \o name
        Pickers ==
            {<<ColorSwatch(" Navy ", "location.href='https://www.westside.com/products/nuon-navy-shirt-301008800'"),
               ColorSwatch(" Blue ", "location.href='" \o WestsideProductUrl \o "'")>>,
             <<ColorSwatch(None, "location.href='" \o WestsideProductUrl \o "'")>>,
             <<>>}
        Details ==
            {[names |-> <<" Nuon Dusty  Pink Shirt ", None, "Westside", None>>,
              prices |-> <<None, RUPEE \o " 1,299.00", None, RUPEE \o " 1,499.00">>,
              text |-> "",
              gallery_images |-> {Image("shirt_1.jpg?v=5&width=300"),
                                  Image("301008799001_5_20copy.jpg"), ""},
              fancybox_images |-> {"https://www.westside.com/cdn/shop/files/shirt_1.jpg",
                                   "https://cdn.example.com/pixel.gif"},
              json_scripts |-> <<>>],
             [names |-> <<None, None, "Wes Shirt", None>>,
              prices |-> <<None, None, None, None>>,
              text |-> "Regular price " \o RUPEE \o " 999 incl. of all taxes",
              gallery_images |-> {},
              fancybox_images |-> {},
              json_scripts |-> <<[image |-> <<"cdn.shopify.com/s/files/wes.jpg",
                                              "https://cdn.example.com/wes.jpg">>],
                                 [image |-> <<>>]>>],
             [names |-> <<None, None, None, None>>,
              prices |-> <<None, None, None, None>>,
              text |-> "",
              gallery_images |-> {}, fancybox_images |-> {}, json_scripts |-> <<>>]}
    IN  {[color_swatches |-> swatches, names |-> d.names, prices |-> d.prices,
          text |-> d.text, gallery_images |-> d.gallery_images,
          fancybox_images |-> d.fancybox_images, json_scripts |-> d.json_scripts] :
            swatches \in Pickers, d \in Details}

-----------------------------------------------------------------------------
(* One crawl run *)

\* the number of responses and failures one run handles
MaxResponses == 4

StartUrl(site) ==
    CASE site = "uniqlo" -> "https://www.uniqlo.com/in/sitemap_in-en_l3_hreflang.xml"
      [] site = "nike" -> "https://www.nike.com/sitemap-v2-pdp-en-in.xml"
      [] site = "ms" -> "https://www.marksandspencer.in/sitemap_0.xml"
      [] site = "westside" -> "https://www.westside.com/sitemap.xml"

\* the requests of a callback the duplicate filter lets through: those built
\* with dont_filter, and the first request for each URL not yet seen
Filtered(requests) ==
    SelectSeq([k \in 1..Len(requests) |->
                  [request |-> requests[k],
                   kept |-> \/ requests[k].dont_filter
                            \/ /\ requests[k].url \notin seen
                               /\ \A j \in 1..(k - 1) :
                                     requests[j].dont_filter \/ requests[j].url # requests[k].url]],
              LAMBDA e : e.kept)

RECURSIVE BagOfRequests(_)
BagOfRequests(entries) ==
    IF entries = <<>> THEN EmptyBag
    ELSE SetToBag({entries[1].request}) (+) BagOfRequests(Tail(entries))

CrawlIdle ==
    /\ spider = None
    /\ scheduled = EmptyBag
    /\ emitted = <<>>
    /\ successful_products = {}
    /\ failed_products = <<>>
    /\ total_variants_found = 0
    /\ seen = {}
    /\ responses = 0
    /\ last_call = [request |-> [callback |-> None], response |-> [url |-> None],
                    yield |-> Nothing]
    /\ running = <<>>

\* Spider.__init__ and start_requests: empty statistics and the start URL
Init ==
    /\ spider \in Sites
    /\ scheduled = SetToBag({[Request("parse", StartUrl(spider), None, None, FALSE)
                                 EXCEPT !.dont_filter = TRUE]})
    /\ emitted = <<>>
    /\ successful_products = {}
    /\ failed_products = <<>>
    /\ total_variants_found = 0
    /\ seen = {}
    /\ responses = 0
    /\ last_call = [request |-> [callback |-> None], response |-> [url |-> None],
                    yield |-> Nothing]
    /\ running = <<>>
    /\ PriceIdle /\ CarouselIdle /\ ImagesIdle

\* the request is in flight and is for this callback of this spider
Due(request, site, callback) ==
    /\ responses < MaxResponses
    /\ spider = site
    /\ BagIn(request, scheduled)
    /\ request.callback = callback

\* the engine takes the request out of flight and applies what the callback
\* (or the errback) did
Handled(request, response, yield) ==
    /\ scheduled' = (scheduled (-) SetToBag({request})) (+) BagOfRequests(Filtered(yield.requests))
    /\ seen' = seen \cup {r.url : r \in {q \in Range(yield.requests) : ~q.dont_filter}}
    /\ emitted' = emitted \o yield.items
    /\ successful_products' = successful_products \cup yield.successes
    /\ failed_products' = failed_products \o yield.failures
    /\ total_variants_found' = total_variants_found + yield.found
    /\ responses' = responses + 1
    /\ last_call' = [request |-> request, response |-> response, yield |-> yield]
    /\ UNCHANGED <<spider, running, price_site, price_raw, price_once, price_twice,
                   pc, clicks, collected_images, stable_count_iterations, last_growth,
                   img_pc, img_page, img_color_code, img_locals, img_result>>

Response(request, page) == [url |-> request.url, page |-> page]

ProductSpiderParse ==
    \E request \in BagToSet(scheduled), page \in UniqloSitemapPages :
        /\ Due(request, "uniqlo", "parse")
        /\ Handled(request, Response(request, page), ProductSpider_parse(Response(request, page)))

ProductSpiderParseCategory ==
    \E request \in BagToSet(scheduled), page \in UniqloCategoryPages :
        /\ Due(request, "uniqlo", "parse_category")
        /\ Handled(request, Response(request, page), ProductSpider_parse_category(Response(request, page)))

ProductSpiderParseProduct ==
    \E request \in BagToSet(scheduled), page \in UniqloProductPages :
        /\ Due(request, "uniqlo", "parse_product")
        /\ Handled(request, Response(request, page), ProductSpider_parse_product(Response(request, page)))

ProductSpiderParseProductVariant ==
    \E request \in BagToSet(scheduled), page \in UniqloProductPages :
        /\ Due(request, "uniqlo", "parse_product_variant")
        /\ Handled(request, Response(request, page),
                   ProductSpider_parse_product_variant(
                       Response(request, page), request.variant_id, request.color_name))

\* a download fails for good: the errback runs when the request has one,
\* otherwise the engine only logs the failure
\* what a failure can be: an instance of the builtin TimeoutError or not,
\* with its str(failure.value)
DownloadFails ==
    \E request \in BagToSet(scheduled),
       failure \in {[is_timeout_error |-> TRUE, value |-> ""],
                    [is_timeout_error |-> FALSE,
                     value |-> "User timeout caused connection failure."]} :
        /\ responses < MaxResponses
        /\ BagIn(request, scheduled)
        /\ Handled(request,
                   [is_timeout_error |-> failure.is_timeout_error, value |-> failure.value],
                   IF request.errback
                   THEN errback_httpbin([request |-> request,
                                         is_timeout_error |-> failure.is_timeout_error,
                                         value |-> failure.value])
                   ELSE Nothing)

NikeSpiderParse ==
    \E request \in BagToSet(scheduled), page \in NikeSitemapPages :
        /\ Due(request, "nike", "parse")
        /\ Handled(request, Response(request, page), NikeSpider_parse(Response(request, page)))

NikeSpiderParseProduct ==
    \E request \in BagToSet(scheduled), page \in NikeProductPages :
        /\ Due(request, "nike", "parse_product")
        /\ Handled(request, Response(request, page), NikeSpider_parse_product(Response(request, page)))

NikeSpiderParseProductVariant ==
    \E request \in BagToSet(scheduled), page \in NikeProductPages :
        /\ Due(request, "nike", "parse_product_variant")
        /\ Handled(request, Response(request, page),
                   NikeSpider_parse_product_variant(
                       Response(request, page), request.variant_id, request.color_name))

MSSpiderParse ==
    \E request \in BagToSet(scheduled), page \in MSSitemapPages :
        /\ Due(request, "ms", "parse")
        /\ Handled(request, Response(request, page), MSSpider_parse(Response(request, page)))

MSSpiderParseProduct ==
    \E request \in BagToSet(scheduled), page \in MSProductPages :
        /\ Due(request, "ms", "parse_product")
        /\ Handled(request, Response(request, page), MSSpider_parse_product(Response(request, page)))

WestsideSpiderParse ==
    \E request \in BagToSet(scheduled), page \in WestsideSitemapPages :
        /\ Due(request, "westside", "parse")
        /\ Handled(request, Response(request, page), WestsideSpider_parse(Response(request, page)))

WestsideSpiderParseProductSitemap ==
    \E request \in BagToSet(scheduled), page \in WestsideProductSitemapPages :
        /\ Due(request, "westside", "parse_product_sitemap")
        /\ Handled(request, Response(request, page), WestsideSpider_parse_product_sitemap(Response(request, page)))

WestsideSpiderParseProduct ==
    \E request \in BagToSet(scheduled), page \in WestsideProductPages :
        /\ Due(request, "westside", "parse_product")
        /\ Handled(request, Response(request, page), WestsideSpider_parse_product(Response(request, page)))

Next ==
    \/ ProductSpiderParse
    \/ ProductSpiderParseCategory
    \/ ProductSpiderParseProduct
    \/ ProductSpiderParseProductVariant
    \/ NikeSpiderParse
    \/ NikeSpiderParseProduct
    \/ NikeSpiderParseProductVariant
    \/ MSSpiderParse
    \/ MSSpiderParseProduct
    \/ WestsideSpiderParse
    \/ WestsideSpiderParseProductSitemap
    \/ WestsideSpiderParseProduct
    \/ DownloadFails

Spec == Init /\ [][Next]_vars

InitPrice ==
    /\ price_site \in Sites
    /\ price_raw \in TokenStrings(MaxPriceTokens) \cup LabelledPrices
    /\ price_once = None
    /\ price_twice = None
    /\ CarouselIdle /\ ImagesIdle /\ CrawlIdle

\* the state before the next button is looked up
InitCarousel ==
    /\ pc = "start"
    /\ clicks = 0
    /\ collected_images = {}
    /\ stable_count_iterations = 0
    /\ last_growth = 0
    /\ PriceIdle /\ ImagesIdle /\ CrawlIdle

InitImages ==
    /\ img_pc = "call"
    /\ img_page \in MSImagePages
    /\ img_color_code \in {"Y0", "F4", "F", None}    \* data-swatchid values, or no colour
    /\ img_locals = NoLocals
    /\ img_result = <<>>
    /\ PriceIdle /\ CarouselIdle /\ CrawlIdle

NextPrice == CleanOnce \/ CleanTwice

NextCarousel ==
    \/ \E found \in BOOLEAN : FindNextButton(found)
    \/ \E dom \in DomSnapshots : Click(dom)
    \/ ClickRaises

NextImages == ResolveImages

SpecPrice == InitPrice /\ [][NextPrice]_vars

SpecCarousel == InitCarousel /\ [][NextCarousel]_vars

\* the coroutine with each step it can take taken in the end: every await in
\* it returns or raises (wait_for_selector and click have timeouts,
\* wait_for_timeout is a timer)
SpecCarouselFair == InitCarousel /\ [][NextCarousel]_vars /\ WF_vars(NextCarousel)

SpecImages == InitImages /\ [][NextImages]_vars

\* ---- the run with its callbacks interleaved
\* A callback is a generator function: calling it runs none of its body, and
\* each resumption runs the body up to its next yield. The engine consumes the
\* generators of several responses in turn on the one reactor thread, so the
\* code between two yields of a callback runs without interruption and the
\* resumptions of different callbacks interleave freely. An errback is a plain
\* function and runs when it is called.

\* the number of callbacks and errbacks one interleaved run calls
MaxCalls == 3

\* what the download of the request and the call of its callback can give
Calls(request) ==
    {[response |-> [is_timeout_error |-> failure.is_timeout_error, value |-> failure.value],
      yield |-> IF request.errback
                THEN errback_httpbin([request |-> request,
                                      is_timeout_error |-> failure.is_timeout_error,
                                      value |-> failure.value])
                ELSE Nothing,
      generator |-> FALSE] :
        failure \in {[is_timeout_error |-> TRUE, value |-> ""],
                     [is_timeout_error |-> FALSE,
                      value |-> "User timeout caused connection failure."]}}
    \cup
    CASE spider = "uniqlo" /\ request.callback = "parse" ->
           {[response |-> Response(request, page),
             yield |-> ProductSpider_parse(Response(request, page)),
             generator |-> TRUE] : page \in UniqloSitemapPages}
      [] spider = "uniqlo" /\ request.callback = "parse_category" ->
           {[response |-> Response(request, page),
             yield |-> ProductSpider_parse_category(Response(request, page)),
             generator |-> TRUE] : page \in UniqloCategoryPages}
      [] spider = "uniqlo" /\ request.callback = "parse_product" ->
           {[response |-> Response(request, page),
             yield |-> ProductSpider_parse_product(Response(request, page)),
             generator |-> TRUE] : page \in UniqloProductPages}
      [] spider = "uniqlo" /\ request.callback = "parse_product_variant" ->
           {[response |-> Response(request, page),
             yield |-> ProductSpider_parse_product_variant(
                                 Response(request, page), request.variant_id, request.color_name),
             generator |-> TRUE] : page \in UniqloProductPages}
      [] spider = "nike" /\ request.callback = "parse" ->
           {[response |-> Response(request, page),
             yield |-> NikeSpider_parse(Response(request, page)),
             generator |-> TRUE] : page \in NikeSitemapPages}
      [] spider = "nike" /\ request.callback = "parse_product" ->
           {[response |-> Response(request, page),
             yield |-> NikeSpider_parse_product(Response(request, page)),
             generator |-> TRUE] : page \in NikeProductPages}
      [] spider = "nike" /\ request.callback = "parse_product_variant" ->
           {[response |-> Response(request, page),
             yield |-> NikeSpider_parse_product_variant(
                                 Response(request, page), request.variant_id, request.color_name),
             generator |-> TRUE] : page \in NikeProductPages}
      [] spider = "ms" /\ request.callback = "parse" ->
           {[response |-> Response(request, page),
             yield |-> MSSpider_parse(Response(request, page)),
             generator |-> TRUE] : page \in MSSitemapPages}
      [] spider = "ms" /\ request.callback = "parse_product" ->
           {[response |-> Response(request, page),
             yield |-> MSSpider_parse_product(Response(request, page)),
             generator |-> TRUE] : page \in MSProductPages}
      [] spider = "westside" /\ request.callback = "parse" ->
           {[response |-> Response(request, page),
             yield |-> WestsideSpider_parse(Response(request, page)),
             generator |-> TRUE] : page \in WestsideSitemapPages}
      [] spider = "westside" /\ request.callback = "parse_product_sitemap" ->
           {[response |-> Response(request, page),
             yield |-> WestsideSpider_parse_product_sitemap(Response(request, page)),
             generator |-> TRUE] : page \in WestsideProductSitemapPages}
      [] spider = "westside" /\ request.callback = "parse_product" ->
           {[response |-> Response(request, page),
             yield |-> WestsideSpider_parse_product(Response(request, page)),
             generator |-> TRUE] : page \in WestsideProductPages}
      [] OTHER -> {}

\* the engine takes a request out of flight and calls its callback, which
\* returns a generator that has not run yet, or its errback, which runs
CallSpider ==
    \E request \in BagToSet(scheduled) :
        \E call \in Calls(request) :
            /\ responses < MaxCalls
            /\ scheduled' = scheduled (-) SetToBag({request})
            /\ responses' = responses + 1
            /\ last_call' = [request |-> request, response |-> call.response,
                             yield |-> call.yield]
            /\ failed_products' = IF call.generator THEN failed_products
                                  ELSE failed_products \o call.yield.failures
            /\ running' = Append([h \in DOMAIN running |->
                                      IF call.generator \/ running[h].since = {} THEN running[h]
                                      ELSE [running[h] EXCEPT
                                               !.since = @ \cup {Len(running) + 1}]],
                                 [yield |-> call.yield,
                                  position |-> IF call.generator THEN 0 ELSE 1,
                                  since |-> {},
                                  cut_by |-> {}])
            /\ UNCHANGED <<spider, emitted, successful_products, total_variants_found, seen,
                           price_site, price_raw, price_once, price_twice,
                           pc, clicks, collected_images, stable_count_iterations, last_growth,
                           img_pc, img_page, img_color_code, img_locals, img_result>>

\* Resume with the counter assigned the page's count instead of increased by it
ResumeCounterAssigned(g) ==
    LET yield == running[g].yield
        k == running[g].position + 1
        requests == Len(yield.requests)
        outputs == requests + Len(yield.items)
    IN  /\ k <= outputs + 1
        /\ total_variants_found' = IF k = 1 THEN yield.found ELSE total_variants_found
        /\ IF k <= requests
           THEN /\ scheduled' = scheduled (+) BagOfRequests(Filtered(<<yield.requests[k]>>))
                /\ seen' = IF yield.requests[k].dont_filter THEN seen
                           ELSE seen \cup {yield.requests[k].url}
           ELSE UNCHANGED <<scheduled, seen>>
        /\ IF requests < k /\ k <= outputs
           THEN /\ successful_products' =
                       successful_products \cup {yield.items[k - requests].product_id}
                /\ emitted' = Append(emitted, yield.items[k - requests])
           ELSE UNCHANGED <<successful_products, emitted>>
        /\ failed_products' = IF k = outputs + 1 THEN failed_products \o yield.failures
                              ELSE failed_products
        /\ running' = [h \in DOMAIN running |->
                           IF h = g
                           THEN [running[g] EXCEPT
                                    !.position = k,
                                    !.since = IF k <= outputs THEN {g} ELSE {},
                                    !.cut_by = @ \cup (running[g].since \ {g})]
                           ELSE IF running[h].since = {} THEN running[h]
                           ELSE [running[h] EXCEPT !.since = @ \cup {g}]]
        /\ UNCHANGED <<spider, responses, last_call,
                       price_site, price_raw, price_once, price_twice,
                       pc, clicks, collected_images, stable_count_iterations, last_growth,
                       img_pc, img_page, img_color_code, img_locals, img_result>>

\* the engine asks generator g for its next output: the body runs to the next
\* yield, or to its end after the last one. The counter is increased before
\* the first yield, a success is added just before its record is yielded, and
\* a callback that failed has yielded nothing.
\* position: resumptions done; history: since, itself and the calls that ran
\* after its latest resumption while it has more to run, and cut_by, the
\* calls that ran between two of its resumptions
Resume(g) ==
    LET yield == running[g].yield
        k == running[g].position + 1
        requests == Len(yield.requests)
        outputs == requests + Len(yield.items)
    IN  /\ k <= outputs + 1
        /\ total_variants_found' = IF k = 1 THEN total_variants_found + yield.found
                                   ELSE total_variants_found
        /\ IF k <= requests
           THEN /\ scheduled' = scheduled (+) BagOfRequests(Filtered(<<yield.requests[k]>>))
                /\ seen' = IF yield.requests[k].dont_filter THEN seen
                           ELSE seen \cup {yield.requests[k].url}
           ELSE UNCHANGED <<scheduled, seen>>
        /\ IF requests < k /\ k <= outputs
           THEN /\ successful_products' =
                       successful_products \cup {yield.items[k - requests].product_id}
                /\ emitted' = Append(emitted, yield.items[k - requests])
           ELSE UNCHANGED <<successful_products, emitted>>
        /\ failed_products' = IF k = outputs + 1 THEN failed_products \o yield.failures
                              ELSE failed_products
        /\ running' = [h \in DOMAIN running |->
                           IF h = g
                           THEN [running[g] EXCEPT
                                    !.position = k,
                                    !.since = IF k <= outputs THEN {g} ELSE {},
                                    !.cut_by = @ \cup (running[g].since \ {g})]
                           ELSE IF running[h].since = {} THEN running[h]
                           ELSE [running[h] EXCEPT !.since = @ \cup {g}]]
        /\ UNCHANGED <<spider, responses, last_call,
                       price_site, price_raw, price_once, price_twice,
                       pc, clicks, collected_images, stable_count_iterations, last_growth,
                       img_pc, img_page, img_color_code, img_locals, img_result>>

NextConcurrent ==
    \/ CallSpider
    \/ \E g \in DOMAIN running : Resume(g)

SpecConcurrent == Init /\ [][NextConcurrent]_vars

-----------------------------------------------------------------------------
(* Properties *)

\* C4: price cleaning is idempotent: for the M&S, Westside and Nike steps,
\* cleaning the cleaned price gives the cleaned price again.
PriceCleaningIdempotent ==
    (price_twice # None /\ price_site \in {"ms", "westside", "nike"})
        => price_twice = price_once

\* C6: " MRP: 1,299.00" is cleaned to "1299.00", and every labelled price
\* (whitespace, MRP or Price in any case, colons and whitespace, digits with
\* commas and a decimal part) is cleaned to its digits and decimal part, by
\* every extractor.
LabelledPriceCleaned ==
    price_once # None =>
        /\ price_raw = " MRP: 1,299.00" => price_once = "1299.00"
        /\ price_raw \in LabelledPrices => price_once = DigitsAndPoint(price_raw)

\* C7 as stated: once the accumulated set holds at least 5 images and has
\* not grown for three iterations, the loop has stopped.
CarouselStopsAtFive ==
    (Cardinality(collected_images) >= 5 /\ clicks >= last_growth + 3) => pc # "loop"

\* C7 amended: the loop breaks exactly three iterations after the last growth
\* and only with more than 5 images; while it runs, no streak of three without
\* growth has been seen with more than 5 images; it is exhausted only after
\* max_clicks iterations.
CarouselStopsAboveFive ==
    /\ pc = "break" => clicks = last_growth + 3 /\ Cardinality(collected_images) > 5
    /\ pc = "loop" => ~(Cardinality(collected_images) > 5 /\ clicks >= last_growth + 3)
    /\ pc = "exhausted" => clicks = max_clicks

\* the loop broke three iterations after a growth that was not the first click
CarouselBrokeAfterStreak ==
    pc = "break" /\ last_growth > 1 /\ clicks = last_growth + 3

\* C8: with a colour code and at least one colour-specific URL, the returned
\* list is at least as long as the set of generic URLs and holds every one of
\* them.
ColorBiasKeepsGeneric ==
    (img_pc = "returned" /\ Truthy(img_color_code)
        /\ img_locals.color_specific_images # {})
        => /\ Len(img_result) >= Cardinality(img_locals.generic_images)
           /\ img_locals.generic_images \subseteq Range(img_result)

\* colour-specific and generic URLs were both found
ColorAndGenericFound ==
    /\ img_pc = "returned"
    /\ Truthy(img_color_code)
    /\ img_locals.color_specific_images # {}
    /\ img_locals.generic_images # {}

\* C9: no returned URL ends in /w_600 or /w_1008.
NoLowResSuffix ==
    img_pc = "returned" =>
        \A i \in 1..Len(img_result) :
            ~EndsWith(img_result[i], "/w_600") /\ ~EndsWith(img_result[i], "/w_1008")

LowResSuffixed(S) == {u \in S : EndsWith(u, "/w_600") \/ EndsWith(u, "/w_1008")}

\* a trusted low-resolution stub was among the candidates of a page whose
\* other candidates were rewritten for the colour and returned
LowResCandidateDropped ==
    /\ img_pc = "returned"
    /\ LowResSuffixed({u \in img_page.high_res \cup img_page.fallback : TrustedMS(u)}) # {}
    /\ Truthy(img_color_code)
    /\ img_locals.color_specific_images \ img_locals.all_image_urls # {}
    /\ img_result # <<>>

\* C1: every emitted record, of every spider, has image_count equal to the
\* length of image_urls, and image_url None exactly when image_urls is empty
\* and the first element of image_urls otherwise.
ImageFieldsAgree ==
    \A k \in 1..Len(emitted) :
        /\ emitted[k].image_count = Len(emitted[k].image_urls)
        /\ emitted[k].image_url = None <=> emitted[k].image_urls = <<>>
        /\ emitted[k].image_urls # <<>> => emitted[k].image_url = emitted[k].image_urls[1]

\* one run emitted a record without images and a record with several
RecordsWithAndWithoutImages ==
    \E i, j \in 1..Len(emitted) :
        /\ emitted[i].image_urls = <<>>
        /\ Len(emitted[j].image_urls) >= 2

\* C2: image_urls of every emitted record is in ascending order and holds no
\* value twice: each element is less than the next.
ImageUrlsAscending ==
    \A k \in 1..Len(emitted) :
        \A i \in 1..(Len(emitted[k].image_urls) - 1) :
            StrLess(emitted[k].image_urls[i], emitted[k].image_urls[i + 1])

\* a record with a colour code in effect lists three or more images
ColoredRecordWithImages ==
    \E k \in 1..Len(emitted) :
        /\ Truthy(emitted[k].color_code)
        /\ Len(emitted[k].image_urls) >= 3

\* C3: no two records emitted in one run carry the same product_id.
ProductIdsUnique ==
    \A i, j \in 1..Len(emitted) :
        i # j => emitted[i].product_id # emitted[j].product_id

\* C5: the price of every emitted record holds no rupee sign and no comma.
EmittedPricesClean ==
    \A k \in 1..Len(emitted) :
        /\ ~Contains(emitted[k].price, RUPEE)
        /\ ~Contains(emitted[k].price, ",")

\* C10: a Uniqlo variant request for colour code c of the product with base
\* id b (both read back from its URL, base_url?colorCode=COLc) carries the
\* variant_id b-COLc, and the record emitted for it has that product_id and
\* the color_code c.
UniqloVariantIdConvention ==
    LET b(url) == SecondPart(SplitFirst(url, "?"), "/products/")
        c(url) == SplitLast(url, "?colorCode=COL")
    IN  spider = "uniqlo" =>
            /\ \A request \in BagToSet(scheduled) :
                   request.callback = "parse_product_variant" =>
                       request.variant_id = b(request.url) \o "-COL" \o c(request.url)
            /\ \A k \in 1..Len(emitted) :
                   Contains(emitted[k].url, "?colorCode=COL") =>
                       /\ emitted[k].product_id
                              = b(emitted[k].url) \o "-COL" \o c(emitted[k].url)
                       /\ emitted[k].color_code = c(emitted[k].url)

\* the variants 09 and 69 of one product page were requested, and the record
\* of variant 69 was emitted while the request for 09 is still in flight
UniqloVariantEmitted ==
    /\ spider = "uniqlo"
    /\ \E request \in BagToSet(scheduled) :
           request.callback = "parse_product_variant" /\ request.variant_id = "E123456-000-COL09"
    /\ \E k \in 1..Len(emitted) :
           emitted[k].product_id = "E123456-000-COL69" /\ emitted[k].color_code = "69"

-----------------------------------------------------------------------------
(* What the call handled last was *)

\* the call handled last was this callback of this spider, run on a response
Parsed(site, callback) ==
    /\ spider = site
    /\ last_call.request.callback = callback
    /\ "page" \in DOMAIN last_call.response

\* the picker of the Uniqlo page handled last holds elements, none of them
\* with a colour label, and the page has a title and a price
UniqloPickerWithoutColors ==
    /\ Parsed("uniqlo", "parse_product")
    /\ last_call.response.page.chips # <<>>
    /\ \A k \in 1..Len(last_call.response.page.chips) :
           ~last_call.response.page.chips[k].color
    /\ Truthy(last_call.response.page.title)
    /\ Truthy(FirstTruthy(last_call.response.page.prices))

\* the swatch links of the M&S page handled last are there, none of them with
\* a data-swatchid
MSPickerWithoutColors ==
    /\ Parsed("ms", "parse_product")
    /\ last_call.response.page.swatch_links \o last_call.response.page.alternative_links # <<>>
    /\ \A k \in 1..Len(last_call.response.page.swatch_links) :
           ~Truthy(last_call.response.page.swatch_links[k].swatchid)
    /\ \A k \in 1..Len(last_call.response.page.alternative_links) :
           ~Truthy(last_call.response.page.alternative_links[k].swatchid)

\* C11: when a product page holds a colour picker with no valid colour
\* candidate in it, the page is handled as a single product: exactly one
\* record is emitted for it (its name and price being there), and the
\* color_name and the color_code of the record are both absent
SingleProductWithoutColor ==
    (UniqloPickerWithoutColors \/ MSPickerWithoutColors)
        => /\ Len(last_call.yield.items) = 1
           /\ last_call.yield.items[1].color_name = None
           /\ last_call.yield.items[1].color_code = None

\* the name the selectors of a product page give before any colour is added
\* to it: the stripped title (Uniqlo), the title joined with the subtitle
\* (Nike), the name of the common data (M&S, Westside)
BaseName(response) ==
    LET Joined(title, subtitle) ==
            IF Truthy(subtitle) THEN Strip(Format(title) \o " " \o subtitle) ELSE title
    IN  CASE spider = "uniqlo" -> StripIfTruthy(response.page.title)
          [] spider = "nike" ->
                StripIfTruthy(Joined(FirstTruthy(response.page.titles),
                                     FirstTruthy(response.page.subtitles \o <<"">>)))
          [] spider = "ms" -> MSSpider_extract_common_product_data(response).name
          [] spider = "westside" -> WestsideSpider_extract_common_product_data(response).name

\* C12: the name of every record is the base name of its page followed by
\* " - " and the colour name when the record has a colour name, and the base
\* name alone when it has none, whichever spider built it
NameComposedWithColor ==
    \A k \in 1..Len(last_call.yield.items) :
        Truthy(BaseName(last_call.response))
            => last_call.yield.items[k].name
                   = IF Truthy(last_call.yield.items[k].color_name)
                     THEN BaseName(last_call.response) \o " - "
                              \o last_call.yield.items[k].color_name
                     ELSE BaseName(last_call.response)

\* what the name selectors and the price selectors of a product page yield,
\* in the order the spider of the run tries them
NameSelectors(page) ==
    CASE spider = "uniqlo" -> <<page.title>>
      [] spider = "nike" -> page.titles
      [] OTHER -> page.names
PriceSelectors(page) == page.prices

\* some selector of the list yields a value that is not empty
SomeNonEmpty(values) == \E k \in 1..Len(values) : Truthy(values[k])

\* the value of the selector of lowest index that yields one
FirstNonEmpty(values) ==
    values[CHOOSE k \in 1..Len(values) :
               Truthy(values[k]) /\ \A j \in 1..(k - 1) : ~Truthy(values[j])]

\* two selectors of the list yield different values
TwoNonEmpty(values) ==
    \E j, k \in 1..Len(values) :
        j < k /\ Truthy(values[j]) /\ Truthy(values[k]) /\ values[j] # values[k]

\* C13: for the name and for the price of each spider, the value taken from
\* the ordered list of selectors is the one of the first selector that yields
\* a non-empty value, whatever the later selectors yield: the name of every
\* record starts with that value, stripped, and its price is that value,
\* cleaned
FallbackShortCircuit ==
    \A k \in 1..Len(last_call.yield.items) :
        /\ SomeNonEmpty(NameSelectors(last_call.response.page))
              => StartsWith(last_call.yield.items[k].name,
                            Strip(FirstNonEmpty(NameSelectors(last_call.response.page))))
        /\ SomeNonEmpty(PriceSelectors(last_call.response.page))
              => last_call.yield.items[k].price
                     = CleanPrice(spider,
                                  FirstNonEmpty(PriceSelectors(last_call.response.page)))

\* a record was built from a page where two selectors of the name and two
\* selectors of the price yield different values
LaterSelectorsDiffer ==
    /\ last_call.yield.items # <<>>
    /\ TwoNonEmpty(NameSelectors(last_call.response.page))
    /\ TwoNonEmpty(PriceSelectors(last_call.response.page))

\* the call handled last ran the field extraction of a record on a product
\* page: a variant page, a product page without colour candidates (Uniqlo,
\* Nike), or any product page (M&S, Westside)
Extracted ==
    \/ Parsed("uniqlo", "parse_product_variant")
    \/ /\ Parsed("uniqlo", "parse_product")
       /\ \A k \in 1..Len(last_call.response.page.chips) :
              ~last_call.response.page.chips[k].color
    \/ Parsed("nike", "parse_product_variant")
    \/ Parsed("nike", "parse_product") /\ last_call.response.page.colorway_links = <<>>
    \/ Parsed("ms", "parse_product")
    \/ Parsed("westside", "parse_product")

\* the name or the price of the page is absent after every selector and
\* pattern of the spider was tried
MissingField(response) ==
    CASE spider \in {"uniqlo", "nike"} ->
            \/ ~SomeNonEmpty(NameSelectors(response.page))
            \/ ~SomeNonEmpty(PriceSelectors(response.page))
      [] spider = "ms" ->
            \/ ~Truthy(MSSpider_extract_common_product_data(response).name)
            \/ ~Truthy(MSSpider_extract_common_product_data(response).price)
      [] spider = "westside" ->
            \/ ~Truthy(WestsideSpider_extract_common_product_data(response).name)
            \/ ~Truthy(WestsideSpider_extract_common_product_data(response).price)

\* C14: in every spider, when the name or the price of a variant is absent
\* after all its selectors and patterns, no record is emitted for the variant,
\* its id is appended to failed_products under a message, and it is not added
\* to successful_products
MissingFieldIsFailure ==
    (Extracted /\ MissingField(last_call.response))
        => /\ last_call.yield.items = <<>>
           /\ last_call.yield.failures # <<>>
           /\ last_call.yield.successes = {}

\* the swatch links M&S parse_product reads on the page handled last
MSColorOptions ==
    IF last_call.response.page.swatch_links # <<>>
    THEN last_call.response.page.swatch_links
    ELSE last_call.response.page.alternative_links

\* C15: an exception raised while one variant is extracted is absorbed where
\* the variant is handled, in every spider: the callback ends, and the id of
\* the variant is appended to failed_products under the string of the
\* exception. The exceptions of the model are the ValueError of a missing
\* field (Uniqlo, Nike) and the re.error of the image substitution (M&S)
ExceptionIsRecorded ==
    /\ (spider \in {"uniqlo", "nike"} /\ Extracted /\ MissingField(last_call.response))
           => /\ last_call.yield.items = <<>>
              /\ \E j \in 1..Len(last_call.yield.failures) :
                     StartsWith(last_call.yield.failures[j][1], "Missing required fields")
    /\ Parsed("ms", "parse_product")
           => \A k \in 1..Len(MSColorOptions) :
                  ExtractVariantImagesRaises(last_call.response.page.images,
                                             MSColorOptions[k].swatchid)
                      => \E j \in 1..Len(last_call.yield.failures) :
                             last_call.yield.failures[j][2]
                                 = MSProductId(SplitFirst(last_call.response.url, "?"))
                                       \o "-" \o MSColorOptions[k].swatchid

\* the request handled last ended in a failure of the download
FetchFailed == "is_timeout_error" \in DOMAIN last_call.response

\* C16: every failure to fetch a request that a spider issued, a product-page
\* request of the sitemap as well as a variant request, is recorded exactly
\* once in failed_products: under "Timeout Error" when the failure is a
\* timeout, under the string of the error value otherwise, with the
\* variant_id of the request, or "Unknown ID" when its meta has none
FetchFailureRecorded ==
    (FetchFailed /\ last_call.request.callback \in {"parse_product", "parse_product_variant"})
        => last_call.yield.failures
               = << <<IF last_call.response.is_timeout_error THEN "Timeout Error"
                      ELSE last_call.response.value,
                      IF last_call.request.variant_id = None THEN "Unknown ID"
                      ELSE last_call.request.variant_id>> >>

\* the call handled last parsed a sitemap, or the sitemap index of Westside
SitemapParsed ==
    /\ "page" \in DOMAIN last_call.response
    /\ last_call.request.callback \in {"parse", "parse_product_sitemap"}

\* the <loc> entries that call read
SitemapEntries ==
    IF last_call.request.callback = "parse" THEN last_call.response.page.sitemap_urls
    ELSE last_call.response.page.product_urls

\* the entry matches the product-URL pattern of the spider, or, in the
\* sitemap index of Westside, carries the marker of a product sitemap
MatchesPattern(url) ==
    CASE spider = "uniqlo" -> UniqloProductUrl(url)
      [] spider = "nike" -> NikeProductUrl(url)
      [] spider = "ms" -> MSProductUrl(url)
      [] spider = "westside" /\ last_call.request.callback = "parse" ->
            Contains(url, "sitemap_products_")
      [] OTHER -> WestsideProductId(url) # None

\* the callbacks of the requests the call issued for the entry
RequestedAs(url) ==
    {last_call.yield.requests[k].callback :
        k \in {j \in 1..Len(last_call.yield.requests) :
                  last_call.yield.requests[j].url = Follow(last_call.response.url, url)}}

CountedCandidates ==
    CASE spider = "uniqlo" ->
            SelectSeq(last_call.response.page.chips, LAMBDA chip : chip.color)
      [] spider = "nike" -> last_call.response.page.colorway_links
      [] spider = "ms" -> SelectSeq(MSColorOptions, LAMBDA o : Truthy(o.swatchid))

\* the ids of what the call derived, in order: of its variant requests
\* (Uniqlo, Nike), of its records (M&S)
DerivedIds ==
    IF spider = "ms"
    THEN [k \in 1..Len(last_call.yield.items) |-> last_call.yield.items[k].product_id]
    ELSE [k \in 1..Len(last_call.yield.requests) |-> last_call.yield.requests[k].variant_id]

\* base_product_id + the separator of the site + the colour code of a candidate
CandidateId(candidate) ==
    CASE spider = "uniqlo" ->
            UniqloVariantId(SecondPart(SplitFirst(last_call.response.url, "?"), "/products/"),
                            candidate.value)
      [] spider = "nike" ->
            NikeVariantId(SplitLast(SplitLast(SplitFirst(last_call.response.url, "?"), "/"), "-"),
                          SplitLast(candidate.href, "/"))
      [] spider = "ms" ->
            MSProductId(SplitFirst(last_call.response.url, "?")) \o "-" \o candidate.swatchid

\* a product page of a spider that enumerates colour variants was parsed
VariantsEnumerated ==
    \E site \in {"uniqlo", "nike", "ms"} : Parsed(site, "parse_product")

\* C18: when a product page yields n >= 1 valid colour candidates, those
\* counted into total_variants_found, exactly n variant requests (Uniqlo,
\* Nike) or n records (M&S) are derived, one for each candidate in the order
\* of the page, each with the id base_product_id + separator + the colour
\* code of its candidate
OneVariantPerCandidate ==
    (VariantsEnumerated /\ Len(CountedCandidates) >= 1)
        => /\ Len(DerivedIds) = Len(CountedCandidates)
           /\ \A k \in 1..Len(CountedCandidates) :
                  DerivedIds[k] = CandidateId(CountedCandidates[k])

\* the colour candidates of the product page handled last, each with the
\* colour name and the colour code the page gives it: the chips with a colour
\* label (Uniqlo: aria-label, radio value), the swatch links with a
\* data-swatchid (M&S: data-attr-value, data-swatchid), the swatch of this
\* product (Westside: its tooltip, and no code attribute at all)
NamedCandidates ==
    CASE spider = "uniqlo" ->
            [k \in 1..Len(CountedCandidates) |->
                [color_name |-> CountedCandidates[k].aria_label,
                 color_code |-> CountedCandidates[k].value]]
      [] spider = "ms" ->
            [k \in 1..Len(CountedCandidates) |->
                [color_name |-> CountedCandidates[k].attr_value,
                 color_code |-> CountedCandidates[k].swatchid]]
      [] spider = "westside" ->
            IF Truthy(SwatchColor(last_call.response.page.color_swatches,
                                  last_call.response.url))
            THEN <<[color_name |-> SwatchColor(last_call.response.page.color_swatches,
                                               last_call.response.url),
                    color_code |-> None]>>
            ELSE <<>>

\* the colour names and colour codes of what the call derived: of its
\* records, and of its variant requests, whose colour code is what the
\* variant_id holds after the COL marker
DerivedColors ==
    {[color_name |-> last_call.yield.items[k].color_name,
      color_code |-> last_call.yield.items[k].color_code] :
        k \in 1..Len(last_call.yield.items)}
    \cup {[color_name |-> last_call.yield.requests[k].color_name,
           color_code |-> UniqloColorCode(last_call.yield.requests[k].variant_id)] :
            k \in 1..Len(last_call.yield.requests)}

\* C19: every valid colour candidate that has a colour name but no colour
\* code of its own is kept, and its color_code is its colour name
ColorNameIsFallbackCode ==
    (\E site \in {"uniqlo", "ms", "westside"} : Parsed(site, "parse_product"))
        => \A k \in 1..Len(NamedCandidates) :
               (Truthy(NamedCandidates[k].color_name) /\ ~Truthy(NamedCandidates[k].color_code))
                   => [color_name |-> NamedCandidates[k].color_name,
                       color_code |-> NamedCandidates[k].color_name] \in DerivedColors

\* how many colour variants the call handled last derived: its variant
\* requests (Uniqlo, Nike), its records with a colour code (M&S)
DerivedVariants ==
    Len(SelectSeq(last_call.yield.requests,
                  LAMBDA r : r.callback = "parse_product_variant"))
    + IF spider = "ms"
      THEN Len(SelectSeq(last_call.yield.items, LAMBDA item : Truthy(item.color_code)))
      ELSE 0

\* C20: total_variants_found is increased once for each product page
\* parsed, by the number of colour variants enumerated on the page, which is
\* the number of variant requests or records derived from the page, and no
\* other call changes it, the extraction of a variant's record included
VariantCountIsDerivedCount ==
    IF VariantsEnumerated
    THEN last_call.yield.found = DerivedVariants
    ELSE last_call.yield.found = 0

(* Callbacks interleaved at their yields *)

\* the sum of the increments of the callbacks
RECURSIVE IncrementsOf(_)
IncrementsOf(generators) ==
    IF generators = <<>> THEN 0
    ELSE Head(generators).yield.found + IncrementsOf(Tail(generators))

RECURSIVE BagOfAppends(_)
BagOfAppends(failures) ==
    IF failures = <<>> THEN EmptyBag
    ELSE SetToBag({Head(failures)}) (+) BagOfAppends(Tail(failures))

\* the failure events of the callbacks and errbacks
RECURSIVE AppendsOf(_)
AppendsOf(generators) ==
    IF generators = <<>> THEN EmptyBag
    ELSE BagOfAppends(Head(generators).yield.failures) (+) AppendsOf(Tail(generators))

\* every callback that was called has run to its end
AllExhausted ==
    /\ running # <<>>
    /\ \A g \in DOMAIN running :
           running[g].position = Len(running[g].yield.requests) + Len(running[g].yield.items) + 1

\* C21: callbacks of different pages that run interleaved against the same
\* statistics lose no update: once all of them have run to their end, the
\* counter is the sum of their increments, every success is in
\* successful_products and every failure event is in failed_products, in
\* whatever order their resumptions were taken.
NoUpdateLost ==
    AllExhausted =>
        /\ total_variants_found = IncrementsOf(running)
        /\ successful_products = UNION {running[g].yield.successes : g \in DOMAIN running}
        /\ BagOfAppends(failed_products) = AppendsOf(running)

\* two product pages, each with colour variants and records of its own, each
\* resumed between two resumptions of the other
TwoCallbacksInterleaved ==
    /\ AllExhausted
    /\ \E g, h \in DOMAIN running :
           /\ g # h
           /\ h \in running[g].cut_by /\ g \in running[h].cut_by
           /\ running[g].yield.found > 0 /\ running[h].yield.found > 0
           /\ running[g].yield.successes # {} /\ running[h].yield.successes # {}

(* The carousel loop ends *)

\* what holds of the loop after every iteration: no more than max_clicks
\* iterations; the streak is the number of latest iterations in a row that
\* added no image; the loop goes on only while the stop test (more than 5
\* images and a streak of 3 or more) has failed and iterations are left,
\* breaks only when the test holds, and is exhausted only at the limit
CarouselLoopBounded ==
    LET streak == clicks - last_growth
        stop == Cardinality(collected_images) > 5 /\ streak >= 3
    IN  /\ clicks <= max_clicks
        /\ stable_count_iterations = streak
        /\ pc = "loop" => ~stop /\ clicks < max_clicks
        /\ pc = "break" => stop
        /\ pc = "exhausted" => ~stop /\ clicks = max_clicks

\* C22: the click loop always ends, after at most max_clicks (35) clicks, and
\* it ends earlier exactly at the first iteration after which more than 5
\* images are held and the streak of iterations without growth is 3 or more,
\* the streak being reset to 0 by any growth.
CarouselLoopTerminates ==
    /\ []CarouselLoopBounded
    /\ <>[](pc \in {"no_button", "break", "exhausted", "error"})

\* the loop broke before its limit, on a streak that began after a growth
\* later than the first click
CarouselBrokeBeforeLimit ==
    /\ pc = "break" /\ clicks < max_clicks
    /\ last_growth > 1 /\ stable_count_iterations = 3
    /\ Cardinality(collected_images) > 5

(* What M&S image resolution returns *)

\* the collected URL holds the colour code as a token of its own
HoldsColorToken(url, color_code) ==
    Contains(url, "_" \o color_code \o "_") \/ Contains(url, "_" \o color_code \o ".")

\* the colour-specific URLs of a call with a colour code: the collected URLs
\* that hold the code, and what the substitution of the code made of those
\* of the others it changed
ColorSpecificOf(collected, color_code) ==
    {u \in collected : HoldsColorToken(u, color_code)} \cup
    {SubColorToken(u, color_code) :
        u \in {v \in collected : /\ ~HoldsColorToken(v, color_code)
                                 /\ SubColorToken(v, color_code) # v}}

\* the generic URLs: those without the code that the substitution left alone
GenericOf(collected, color_code) ==
    {u \in collected : /\ ~HoldsColorToken(u, color_code)
                       /\ SubColorToken(u, color_code) = u}

\* C23: with a colour code and at least one colour-specific URL (found or
\* generated) the returned list holds exactly the colour-specific and the
\* generic URLs; without a colour code, or without any colour-specific URL,
\* it holds exactly the collected URLs.
FinalSelectionByCase ==
    img_pc = "returned" =>
        LET collected == img_locals.all_image_urls
            biased == /\ Truthy(img_color_code)
                      /\ ColorSpecificOf(collected, img_color_code) # {}
        IN  Range(img_result) =
                IF biased
                THEN ColorSpecificOf(collected, img_color_code)
                         \cup GenericOf(collected, img_color_code)
                ELSE collected

\* a call whose collected URLs were one that holds the code, one the
\* substitution rewrote and one generic, and which returned other URLs than
\* it collected
FoundGeneratedAndGeneric ==
    /\ img_pc = "returned"
    /\ Truthy(img_color_code)
    /\ \E u, v, w \in img_locals.all_image_urls :
           /\ HoldsColorToken(u, img_color_code)
           /\ ~HoldsColorToken(v, img_color_code) /\ SubColorToken(v, img_color_code) # v
           /\ w \in GenericOf(img_locals.all_image_urls, img_color_code)
    /\ Range(img_result) # img_locals.all_image_urls

(* The URLs of the images *)

Absolute(url) == StartsWith(url, "http://") \/ StartsWith(url, "https://")

\* C24: every URL of the list M&S image resolution returns, which becomes
\* the image_urls of the record, is absolute: it begins with http:// or
\* https://, from whichever tier or attribute (data attribute, src, srcset
\* entry) it was taken.
ResolvedUrlsAbsolute ==
    img_pc = "returned" => \A i \in 1..Len(img_result) : Absolute(img_result[i])

\* the text after the last "/"
FinalSegment(url) == SplitLast(url, "/")

\* C25 as stated: no returned URL has a final path segment of fewer than 11
\* characters, the URLs the substitution of the colour code produced included.
NoShortFinalSegment ==
    img_pc = "returned" =>
        \A i \in 1..Len(img_result) : Len(FinalSegment(img_result[i])) >= 11

\* C25 amended: every collected URL has a final path segment of 11 characters
\* or more, and every returned URL is a collected URL or what the
\* substitution of the colour code made of a collected URL.
NoShortCollectedSegment ==
    img_pc = "returned" =>
        /\ \A u \in img_locals.all_image_urls : Len(FinalSegment(u)) >= 11
        /\ \A i \in 1..Len(img_result) :
               \/ img_result[i] \in img_locals.all_image_urls
               \/ /\ Truthy(img_color_code)
                  /\ \E u \in img_locals.all_image_urls :
                         img_result[i] = SubColorToken(u, img_color_code)

\* a returned URL that the substitution made shorter than 11 characters in
\* its final segment, from a page that also held a candidate too short to be
\* collected
SubstitutedSegmentShorter ==
    /\ img_pc = "returned"
    /\ \E i \in 1..Len(img_result) :
           /\ Len(FinalSegment(img_result[i])) < 11
           /\ img_result[i] \notin img_locals.all_image_urls
    /\ \E c \in img_page.high_res :
           TrustedMS(c) /\ Len(FinalSegment(NormalizeMS(c))) < 11

\* the trusted asset-host substrings of the site
OnTrustedHost(site, url) ==
    CASE site = "ms" ->
             Contains(url, "digitalcontent.marksandspencer") \/ Contains(url, "assets.digitalcontent")
      [] site = "nike" -> Contains(url, "nike.com")
      [] site = "westside" -> Contains(url, "cdn.shopify.com") \/ Contains(url, "westside.com")
      [] OTHER -> TRUE

\* C26: every URL in the image_urls of a record of the M&S, Nike or Westside
\* spider holds one of the trusted asset-host substrings of its site.
ImagesOnTrustedHosts ==
    \A k \in 1..Len(emitted) :
        \A i \in 1..Len(emitted[k].image_urls) :
            OnTrustedHost(spider, emitted[k].image_urls[i])

(* What becomes of a product page *)

\* the URL of the product page handled last gives parse_product a product id
UrlYieldsProductId ==
    CASE spider = "uniqlo" -> Contains(SplitFirst(last_call.response.url, "?"), "/products/")
      [] spider = "nike" -> Contains(SplitFirst(last_call.response.url, "?"), "/t/")
      [] spider = "ms" -> MSProductUrl(SplitFirst(last_call.response.url, "?"))
      [] OTHER -> FALSE

\* C27: no product page is dropped silently: the call of parse_product on a
\* page whose URL yields a product id emits a record, dispatches a variant
\* request or appends an entry to failed_products.
ProductPageNotDropped ==
    (VariantsEnumerated /\ UrlYieldsProductId)
        => \/ last_call.yield.items # <<>>
           \/ last_call.yield.requests # <<>>
           \/ last_call.yield.failures # <<>>

(* The images the carousel coroutine stored *)

\* C28: when click_through_carousel stored a non-empty set of images for a
\* Nike variant page, the record of the page takes its images from that
\* set: every stored image of a Nike host is in image_urls, in its
\* high-resolution form.
StoredImagesUsed ==
    (/\ Parsed("nike", "parse_product_variant")
     /\ last_call.response.page.window_images # {}
     /\ last_call.yield.items # <<>>)
        => \A img \in last_call.response.page.window_images :
               (Contains(img, "nike.com") \/ StartsWith(img, "//"))
                   => \E i \in 1..Len(last_call.yield.items[1].image_urls) :
                          last_call.yield.items[1].image_urls[i] = NikeHighRes(img)

(* The fields of the records *)

\* C29: every emitted record, of every spider, has a name and a price that
\* are not empty once trimmed.
RecordsNamedAndPriced ==
    \A k \in 1..Len(emitted) :
        /\ Truthy(emitted[k].name) /\ Strip(emitted[k].name) # ""
        /\ Truthy(emitted[k].price) /\ Strip(emitted[k].price) # ""

(* Colour biasing and the number of images *)

\* C30 as stated: the returned list has at least as many URLs as were
\* collected.
NeverFewerThanCollected ==
    img_pc = "returned" => Len(img_result) >= Cardinality(img_locals.all_image_urls)

\* C30 amended: every collected URL is represented in the returned list,
\* unchanged or by what the substitution of the colour code made of it (a
\* form two collected URLs can share), and the list is empty only when
\* nothing was collected.
EveryCollectedRepresented ==
    img_pc = "returned" =>
        /\ \A u \in img_locals.all_image_urls :
               \/ u \in Range(img_result)
               \/ /\ Truthy(img_color_code)
                  /\ SubColorToken(u, img_color_code) \in Range(img_result)
        /\ img_result = <<>> => img_locals.all_image_urls = {}

\* two collected URLs that differ in their colour token alone are returned
\* as one URL, and the list is shorter than the collected set
TwoCollectedShareOneForm ==
    /\ img_pc = "returned"
    /\ Truthy(img_color_code)
    /\ \E u, v \in img_locals.all_image_urls :
           /\ u # v
           /\ SubColorToken(u, img_color_code) = SubColorToken(v, img_color_code)
           /\ u \notin Range(img_result)
    /\ Len(img_result) < Cardinality(img_locals.all_image_urls)

=============================================================================
